---- MODULE Spec2Model ----
(***************************************************************************)
(* Model of the appointment orchestration of barber-calendar-app:          *)
(* POST /client-appointment (routes/webhook.js) over the Google Calendar   *)
(* gateway and the Supabase record store (utils/supabase.js).              *)
(*                                                                         *)
(* Time is counted in minutes (the code counts milliseconds and every      *)
(* quantity it adds is a multiple of 60000).  Text is a sequence of        *)
(* one-character strings so that substring search is computed.             *)
(***************************************************************************)
EXTENDS Integers, Sequences, FiniteSets, TLC

(***************************************************************************)
(* Bounds of the model.                                                    *)
(***************************************************************************)
\* number of remote events the gateway hands out ids for
MaxEvents == 2
\* number of requests received in one run
MaxRequests == 3

(***************************************************************************)
(* Program constants.                                                      *)
(***************************************************************************)
\* duration = 30 (request default, and the fallback of the string coercion)
DefaultDuration == 30
\* 24*60*60*1000 ms, in minutes
DayMinutes == 1440
\* timeMin.setDate(timeMin.getDate() - 30)
LookBackDays == 30
\* timeMax.setDate(timeMax.getDate() + 60)
LookAheadDays == 60
\* parseInt(hour, 10) + 7, in minutes
PacificShift == 420

(***************************************************************************)
(* Text.                                                                   *)
(***************************************************************************)
\* String.prototype.toLowerCase on one character
LowerChar(c) ==
  CASE c = "A" -> "a" [] c = "C" -> "c" [] c = "E" -> "e" [] c = "J" -> "j"
    [] c = "N" -> "n" [] c = "P" -> "p" [] c = "R" -> "r" [] c = "T" -> "t"
    [] c = "U" -> "u" [] c = "F" -> "f" [] c = "L" -> "l" [] c = "S" -> "s"
    [] c = "O" -> "o" [] c = "Z" -> "z" [] c = "B" -> "b"
    [] OTHER -> c

\* String.prototype.toLowerCase
toLowerCase(s) == [i \in 1..Len(s) |-> LowerChar(s[i])]

RECURSIVE trim(_)
\* String.prototype.trim
trim(s) ==
  IF s = <<>> THEN s
  ELSE IF Head(s) = " " THEN trim(Tail(s))
  ELSE IF s[Len(s)] = " " THEN trim(SubSeq(s, 1, Len(s) - 1))
  ELSE s

\* String.prototype.includes
includes(s, q) ==
  \E i \in 0..(Len(s) - Len(q)) : SubSeq(s, i + 1, i + Len(q)) = q

\* clientName = "New Client"
StrNewClient == <<"N","e","w"," ","C","l","i","e","n","t">>
\* serviceType = 'Appointment'
StrAppointment == <<"A","p","p","o","i","n","t","m","e","n","t">>
\* `Client: `
StrClientLabel == <<"C","l","i","e","n","t",":"," ">>
\* `\nPhone: `
StrPhoneLabel == <<"\n","P","h","o","n","e",":"," ">>
\* 'Created from reschedule request'
StrFromReschedule ==
  <<"C","r","e","a","t","e","d"," ","f","r","o","m"," ","r","e","s","c","h",
    "e","d","u","l","e"," ","r","e","q","u","e","s","t">>

NameJo == <<"J","o">>
PhoneA == <<"5","5","1">>
PhoneB == <<"5","5","2">>

(***************************************************************************)
(* Optional request fields.  A field the body does not carry is            *)
(* `undefined`; text that is carried may be empty (falsy).                 *)
(***************************************************************************)
Undefined == [def |-> FALSE, val |-> <<>>]
Text(s) == [def |-> TRUE, val |-> s]
\* truthiness of an optional text
Truthy(x) == x.def /\ x.val # <<>>

(***************************************************************************)
(* Date-time values of a request.  form:                                   *)
(*   "absent"    field not in the body                                     *)
(*   "offset"    string with +hh:mm / -hh:mm, wall clock `wall`,           *)
(*               offset `off`                                              *)
(*   "zulu"      string ending in Z, wall clock `wall`                     *)
(*   "naive"     string YYYY-MM-DDTHH:MM:SS without offset                 *)
(*   "loose"     string that starts like a naive one but that Date()       *)
(*               rejects (trailing text)                                   *)
(*   "malformed" any other string                                          *)
(*   "number"    a JSON number (epoch time)                                *)
(* frac: the digits of the fractional seconds of a string (<<>>: the       *)
(* string has no fractional part).                                         *)
(***************************************************************************)
NoTs == [form |-> "absent", wall |-> 0, off |-> 0, frac |-> <<>>]
Naive(w) == [form |-> "naive", wall |-> w, off |-> 0, frac |-> <<>>]
Offset(w, o) == [form |-> "offset", wall |-> w, off |-> o, frac |-> <<>>]
Zulu(w) == [form |-> "zulu", wall |-> w, off |-> 0, frac |-> <<>>]
Loose(w) == [form |-> "loose", wall |-> w, off |-> 0, frac |-> <<>>]
Malformed == [form |-> "malformed", wall |-> 0, off |-> 0, frac |-> <<>>]
Number(t) == [form |-> "number", wall |-> t, off |-> 0, frac |-> <<>>]
\* the same string with fractional seconds .digits
WithFraction(ts, digits) == [ts EXCEPT !.frac = digits]

\* a truthiness test that lets an absent field through
TsTruthy_Always(ts) == ts.form = ts.form

\* truthiness of a date-time field
TsTruthy(ts) == ts.form # "absent"

\* a Date object: valid with time value t minutes and ms milliseconds, or
\* Invalid Date
ValidDate(t) == [valid |-> TRUE, t |-> t, ms |-> 0]
InvalidDate == [valid |-> FALSE, t |-> 0, ms |-> 0]

\* the value of a decimal digit
DigitValue(c) == CHOOSE n \in 0..9 : <<"0","1","2","3","4","5","6","7","8","9">>[n + 1] = c

\* the milliseconds a fractional part .digits stands for (three digits count)
FractionMs(digits) ==
  LET d(i) == IF i <= Len(digits) THEN DigitValue(digits[i]) ELSE 0
  IN 100 * d(1) + 10 * d(2) + d(3)

\* new Date(x) for a request value x, on a server whose local zone is tz
\* minutes east of UTC
NewDate(ts, tz) ==
  LET date == CASE ts.form = "offset" -> ValidDate(ts.wall - ts.off)
                [] ts.form = "zulu" -> ValidDate(ts.wall)
                [] ts.form = "naive" -> ValidDate(ts.wall - tz)
                [] ts.form = "number" -> ValidDate(ts.wall)
                [] OTHER -> InvalidDate
  IN IF date.valid /\ ts.form # "number"
       THEN [date EXCEPT !.ms = FractionMs(ts.frac)] ELSE date

\* dateTimeString.replace(/\.\d+(?=[Z+-])/, ''): the fractional part goes
\* when Z or an offset follows it
StripFraction(ts) ==
  IF ts.frac # <<>> /\ ts.form \in {"offset", "zulu"}
    THEN [ts EXCEPT !.frac = <<>>] ELSE ts

\* the parser that hands the string to Date with its fractional part
parsePacificDateTime_NoStrip(ts, tz) ==
  IF ts.form = "number"
    THEN [ok |-> FALSE, t |-> 0, ms |-> 0]
  ELSE IF NewDate(ts, tz).valid
    THEN [ok |-> TRUE, t |-> NewDate(ts, tz).t, ms |-> NewDate(ts, tz).ms]
  ELSE IF ts.form = "loose"
    THEN [ok |-> TRUE, t |-> ts.wall + PacificShift, ms |-> 0]
  ELSE [ok |-> FALSE, t |-> 0, ms |-> 0]

\* parsePacificDateTime: ok = FALSE stands for a thrown Error
parsePacificDateTime(ts, tz) ==
  IF ts.form = "number"
    \* dateTimeString.includes is not a function
    THEN [ok |-> FALSE, t |-> 0, ms |-> 0]
  ELSE IF NewDate(StripFraction(ts), tz).valid
    THEN [ok |-> TRUE, t |-> NewDate(StripFraction(ts), tz).t,
          ms |-> NewDate(StripFraction(ts), tz).ms]
  ELSE IF ts.form = "loose"
    THEN [ok |-> TRUE, t |-> ts.wall + PacificShift, ms |-> 0]
  \* Invalid date format
  ELSE [ok |-> FALSE, t |-> 0, ms |-> 0]

(***************************************************************************)
(* State.                                                                  *)
(***************************************************************************)
VARIABLES
  events,       \* remote events held by the Calendar Gateway
  rows,         \* rows of the appointments table
  clients,      \* rows of the clients table, by phone number
  barbers,      \* rows of the barbers table
  nextEventId,  \* next id the gateway hands out
  nextRowId,    \* next id of the appointments table
  now,          \* the clock (minutes)
  serverTz,     \* local zone of the server, minutes east of UTC
  pc,           \* "idle" | "received" | "done"
  req,          \* the request body being served
  resp,         \* the response sent for it
  calls,        \* the gateway and store calls issued while serving it
  served,       \* number of requests received so far
  input,        \* the arguments of a function applied on its own
  output        \* its result

vars == <<events, rows, clients, barbers, nextEventId, nextRowId, now,
          serverTz, pc, req, resp, calls, served, input, output>>

\* the part of the state a handler reads and writes
World == [events |-> events, rows |-> rows, clients |-> clients,
          barbers |-> barbers, nextEventId |-> nextEventId,
          nextRowId |-> nextRowId, now |-> now, serverTz |-> serverTz,
          calls |-> <<>>]

\* one issued call with its outcome: "ok", "error" (the call failed),
\* "notfound" (the gateway answered 404) or "none" (no row was affected)
Call(op, arg, out) == [op |-> op, arg |-> arg, out |-> out]
\* a call that is issued a second time
Logged_Twice(w, op, arg, out) ==
  [w EXCEPT !.calls = Append(Append(@, Call(op, arg, out)), Call(op, arg, out))]

Logged(w, op, arg, out) == [w EXCEPT !.calls = Append(@, Call(op, arg, out))]
Outcome(ok) == IF ok THEN "ok" ELSE "error"

(***************************************************************************)
(* Outcome of a handler: a response that was sent, or a thrown error.      *)
(***************************************************************************)
NoResp == [status |-> 0, success |-> FALSE, action |-> "none", eventId |-> 0,
           dbUpdateSuccess |-> "absent", error |-> "none"]
Returned(w, r) == [w |-> w, thrown |-> FALSE, resp |-> r, err |-> "none"]
Thrown(w, e) == [w |-> w, thrown |-> TRUE, resp |-> NoResp, err |-> e]

\* the Express response object, and the value of a parameter that got no
\* argument
ResObject == "res"
NoArgument == "undefined"

\* res.status(code).json(body): a TypeError when res is undefined
Send(res, w, r) ==
  IF res = NoArgument THEN Thrown(w, "TypeError") ELSE Returned(w, r)

ErrorBody(status, e) == [NoResp EXCEPT !.status = status, !.error = e]

(***************************************************************************)
(* Calendar Gateway (googleapis calendar.events).                          *)
(***************************************************************************)
\* the difference taken with its sign
Abs_Signed(x) == x

Abs(x) == IF x < 0 THEN -x ELSE x

RECURSIVE InsertByKey(_, _, _)
\* insert x behind every element whose key is not greater (stable)
InsertByKey(sorted, x, key) ==
  IF sorted = <<>> THEN <<x>>
  ELSE IF key[Head(sorted)] <= key[x]
    THEN <<Head(sorted)>> \o InsertByKey(Tail(sorted), x, key)
  ELSE <<x>> \o sorted

RECURSIVE SortByKey(_, _)
\* Array.prototype.sort with the comparator (a, b) => key[a] - key[b]
SortByKey(list, key) ==
  IF list = <<>> THEN <<>>
  ELSE InsertByKey(SortByKey(SubSeq(list, 1, Len(list) - 1), key),
                   list[Len(list)], key)

RECURSIVE ListOf(_)
\* the events of a set in the order of orderBy: 'startTime'
ListOf(S) ==
  IF S = {} THEN <<>>
  ELSE LET first == CHOOSE e \in S : \A o \in S :
                      e.start < o.start \/ (e.start = o.start /\ e.id <= o.id)
       IN <<first>> \o ListOf(S \ {first})

\* calendar.events.list({calendarId, timeMin, timeMax, singleEvents, orderBy})
EventsList(w, calendarId, timeMin, timeMax) ==
  ListOf({e \in w.events : e.cal = calendarId /\ e.end > timeMin
                             /\ e.start < timeMax})

\* every event counts as upcoming
IsUpcoming_Any(w, event) == event.start = event.start

\* the filter eventDate >= now
IsUpcoming(w, event) == event.start >= w.now

\* text.includes(normalizedSearchName) on the text as it is stored
includesFolded_AsStored(text, normalizedSearchName) ==
  includes(text, normalizedSearchName)

\* text.toLowerCase().includes(normalizedSearchName)
includesFolded(text, normalizedSearchName) ==
  includes(toLowerCase(text), normalizedSearchName)

\* findEventByClientName(calendar, calendarId, clientName, appointmentDate):
\* appointmentDate is <<>> (null) or <<a Date>>; found is <<>> (null) or
\* <<the event>>
findEventByClientName(w, calendarId, clientName, appointmentDate, f) ==
  LET timeMin == w.now - LookBackDays * DayMinutes
      timeMax == w.now + LookAheadDays * DayMinutes
      items == EventsList(w, calendarId, timeMin, timeMax)
      normalizedSearchName == trim(toLowerCase(clientName))
      Matches(event) ==
        \/ includesFolded(event.summary, normalizedSearchName)
        \/ includesFolded(event.description, normalizedSearchName)
      matchingEvents == SelectSeq(items, Matches)
      all == {matchingEvents[i] : i \in 1..Len(matchingEvents)}
      targetDate == appointmentDate[1]
      \* Math.abs(dateA - targetDate); NaN for an Invalid Date compares as 0
      diff == [e \in all |->
                IF targetDate.valid THEN Abs(e.start - targetDate.t) ELSE 0]
      Upcoming(event) == IsUpcoming(w, event)
      upcomingEvents == SelectSeq(matchingEvents, Upcoming)
      byStart == [e \in all |-> e.start]
      byStartDesc == [e \in all |-> 0 - e.start]
      w1 == Logged(w, "events.list", 0, Outcome(f.list = "ok"))
  IN IF f.list # "ok" THEN [w |-> w1, thrown |-> TRUE, found |-> <<>>]
     ELSE [w |-> w1, thrown |-> FALSE,
           found |->
             IF Len(matchingEvents) = 0 THEN <<>>
             ELSE IF Len(matchingEvents) = 1 THEN <<matchingEvents[1]>>
             ELSE IF appointmentDate # <<>>
               THEN <<SortByKey(matchingEvents, diff)[1]>>
             ELSE IF Len(upcomingEvents) > 0
               THEN <<SortByKey(upcomingEvents, byStart)[1]>>
             ELSE <<SortByKey(matchingEvents, byStartDesc)[1]>>]

\* calendar.events.get({calendarId, eventId}): found is <<>> on an error
EventsGet(w, calendarId, eventId, f) ==
  LET hit == {e \in w.events : e.cal = calendarId /\ e.id = eventId}
      status == IF f.get # "ok" THEN 500 ELSE IF hit = {} THEN 404 ELSE 200
  IN [w |-> Logged(w, "events.get", eventId,
                   IF status = 200 THEN "ok"
                   ELSE IF status = 404 THEN "notfound" ELSE "error"),
      status |-> status,
      found |-> IF status = 200 THEN <<CHOOSE e \in hit : TRUE>> ELSE <<>>]

(***************************************************************************)
(* Record Store (utils/supabase.js).  A store call fails by returning      *)
(* { error } ("error") or by rejecting ("throw").                          *)
(***************************************************************************)
\* the client of a phone number: <<>> (null) or <<the row>>
ClientRow(w, phoneNumber) ==
  IF phoneNumber \in DOMAIN w.clients THEN <<w.clients[phoneNumber]>> ELSE <<>>

\* clientOps.getByPhoneNumber: an error is logged and null returned
getByPhoneNumber(w, phoneNumber, f) ==
  [w |-> Logged(w, "clients.select", 0, Outcome(f.clients = "ok")),
   data |-> IF f.clients = "ok" THEN ClientRow(w, phoneNumber) ELSE <<>>]

\* clientOps.createOrUpdate({phone_number, name, preferred_barber_id})
createOrUpdate(w, clientData, f) ==
  LET got == getByPhoneNumber(w, clientData.phone_number, f)
      existingClient == got.data
      updated == [existingClient[1] EXCEPT
                    !.name = IF clientData.name # <<>> THEN clientData.name
                                                        ELSE @,
                    !.preferred_barber_id =
                      IF clientData.preferred_barber_id # 0
                        THEN clientData.preferred_barber_id ELSE @]
      inserted == [name |-> IF clientData.name # <<>> THEN clientData.name
                                                      ELSE StrNewClient,
                   preferred_barber_id |-> clientData.preferred_barber_id,
                   conversation_history |-> <<>>]
      \* phone_number is the key of the table: a second row is refused
      insertOk == f.clientWrite = "ok"
                    /\ clientData.phone_number \notin DOMAIN got.w.clients
      put(row) == [p \in DOMAIN got.w.clients \cup {clientData.phone_number} |->
                     IF p = clientData.phone_number THEN row ELSE got.w.clients[p]]
  IN IF existingClient # <<>>
       THEN IF f.clientWrite = "ok"
              THEN [w |-> [Logged(got.w, "clients.update", 0, "ok")
                             EXCEPT !.clients = put(updated)],
                    data |-> <<updated>>]
              ELSE [w |-> Logged(got.w, "clients.update", 0, "error"), data |-> <<>>]
       ELSE IF insertOk
              THEN [w |-> [Logged(got.w, "clients.insert", 0, "ok")
                             EXCEPT !.clients = put(inserted)],
                    data |-> <<inserted>>]
              ELSE [w |-> Logged(got.w, "clients.insert", 0, "error"), data |-> <<>>]

\* appointmentOps.create as an upsert on (client_phone, start_time): a row of
\* the same client and start is replaced
appointmentOpsCreate_Upsert(w, appointmentData, f) ==
  IF f.apInsert = "throw"
    THEN [w |-> Logged(w, "appointments.insert", 0, "error"), thrown |-> TRUE]
  ELSE IF f.apInsert = "error"
    THEN [w |-> Logged(w, "appointments.insert", 0, "error"), thrown |-> FALSE]
  ELSE [w |-> [Logged(w, "appointments.insert", w.nextRowId, "ok")
                 EXCEPT !.rows =
                          {r \in @ : ~(/\ r.client_phone = appointmentData.client_phone
                                       /\ r.start_time = appointmentData.start_time)}
                            \cup {[id |-> w.nextRowId] @@ appointmentData},
                        !.nextRowId = @ + 1],
        thrown |-> FALSE]

\* appointmentOps.create that leaves google_calendar_event_id out of the insert
appointmentOpsCreate_NoEventId(w, appointmentData, f) ==
  IF f.apInsert = "throw"
    THEN [w |-> Logged(w, "appointments.insert", 0, "error"), thrown |-> TRUE]
  ELSE IF f.apInsert = "error"
    THEN [w |-> Logged(w, "appointments.insert", 0, "error"), thrown |-> FALSE]
  ELSE [w |-> [Logged(w, "appointments.insert", w.nextRowId, "ok")
                 EXCEPT !.rows = @ \cup {[id |-> w.nextRowId] @@
                            [appointmentData EXCEPT !.google_calendar_event_id = 0]},
                        !.nextRowId = @ + 1],
        thrown |-> FALSE]

\* appointmentOps.create: an error is logged and null returned
appointmentOpsCreate(w, appointmentData, f) ==
  IF f.apInsert = "throw"
    THEN [w |-> Logged(w, "appointments.insert", 0, "error"), thrown |-> TRUE]
  ELSE IF f.apInsert = "error"
    THEN [w |-> Logged(w, "appointments.insert", 0, "error"), thrown |-> FALSE]
  ELSE [w |-> [Logged(w, "appointments.insert", w.nextRowId, "ok")
                 EXCEPT !.rows = @ \cup {[id |-> w.nextRowId] @@ appointmentData},
                        !.nextRowId = @ + 1],
        thrown |-> FALSE]

\* appointmentOps.updateByEventId without the data.length === 0 check
updateByEventId_NoLengthCheck(w, eventId, updateData, f) ==
  LET hit == {r \in w.rows : r.google_calendar_event_id = eventId}
      changed(r) == [r EXCEPT !.start_time = updateData.start_time,
                              !.end_time = updateData.end_time]
  IN IF f.apUpdate = "throw"
       THEN [w |-> Logged(w, "appointments.update", eventId, "error"),
             thrown |-> TRUE, success |-> FALSE]
     ELSE IF f.apUpdate = "error"
       THEN [w |-> Logged(w, "appointments.update", eventId, "error"),
             thrown |-> FALSE, success |-> FALSE]
     ELSE [w |-> [Logged(w, "appointments.update", eventId,
                         IF hit # {} THEN "ok" ELSE "none")
                    EXCEPT !.rows = (@ \ hit) \cup {changed(r) : r \in hit}],
           thrown |-> FALSE, success |-> TRUE]

\* appointmentOps.updateByEventId(eventId, {start_time, end_time})
updateByEventId(w, eventId, updateData, f) ==
  LET hit == {r \in w.rows : r.google_calendar_event_id = eventId}
      changed(r) == [r EXCEPT !.start_time = updateData.start_time,
                              !.end_time = updateData.end_time]
  IN IF f.apUpdate = "throw"
       THEN [w |-> Logged(w, "appointments.update", eventId, "error"),
             thrown |-> TRUE, success |-> FALSE]
     ELSE IF f.apUpdate = "error"
       THEN [w |-> Logged(w, "appointments.update", eventId, "error"),
             thrown |-> FALSE, success |-> FALSE]
     ELSE [w |-> [Logged(w, "appointments.update", eventId,
                         IF hit # {} THEN "ok" ELSE "none")
                    EXCEPT !.rows = (@ \ hit) \cup {changed(r) : r \in hit}],
           thrown |-> FALSE, success |-> hit # {}]

\* barberOps.getByPhoneNumber: <<the row>> when exactly one matches, null
\* (<<>>) when none or several do (.single()); an error is logged and null
\* returned
barberGetByPhoneNumber(w, phoneNumber, f) ==
  LET hit == {b \in w.barbers : b.phone_number = phoneNumber}
  IN [w |-> Logged(w, "barbers.select", 0, Outcome(f.barbers = "ok")),
      data |-> IF f.barbers = "ok" /\ Cardinality(hit) = 1
                 THEN <<CHOOSE b \in hit : TRUE>>
               ELSE <<>>]

RECURSIVE RowList(_, _)
\* the rows of a set in the order the store returns them: by id, ascending
\* or descending (a select without ORDER BY promises no order)
RowList(S, order) ==
  IF S = {} THEN <<>>
  ELSE LET first == CHOOSE r \in S : \A o \in S :
                      IF order = "asc" THEN r.id <= o.id ELSE r.id >= o.id
       IN <<first>> \o RowList(S \ {first}, order)

\* appointmentOps.findByClientPhone(clientPhone, {startAfter, startBefore}):
\* a bound is <<>> (null) or <<instant>>; an error is logged and [] returned
findByClientPhone(w, clientPhone, startTimeRange, f) ==
  LET hit == {r \in w.rows :
                /\ r.client_phone = clientPhone
                /\ startTimeRange.startBefore # <<>>
                     => r.start_time < startTimeRange.startBefore[1]
                /\ startTimeRange.startAfter # <<>>
                     => r.start_time > startTimeRange.startAfter[1]}
  IN IF f.apSelect = "throw"
       THEN [w |-> Logged(w, "appointments.select", 0, "error"),
             thrown |-> TRUE, data |-> <<>>]
     ELSE IF f.apSelect = "error"
       THEN [w |-> Logged(w, "appointments.select", 0, "error"),
             thrown |-> FALSE, data |-> <<>>]
     ELSE [w |-> Logged(w, "appointments.select", 0, "ok"),
           thrown |-> FALSE, data |-> RowList(hit, f.order)]

(***************************************************************************)
(* POST /client-appointment: the three handlers.                           *)
(***************************************************************************)
StrUndefined == <<"u","n","d","e","f","i","n","e","d">>
\* `${x}` of an optional text
Interpolate(x) == IF x.def THEN x.val ELSE StrUndefined

\* the store call without the try/catch around it
CatchStoreError_Rethrow(result) == result

\* try { await appointmentOps.create(...) } catch (dbError) { console.error }:
\* "Continue anyway since the calendar event was created"
CatchStoreError(result) == [result EXCEPT !.thrown = FALSE]

\* handleCreateClientAppointment(calendar, calendarId, data, res)
handleCreateClientAppointment(w, calendarId, data, res, f) ==
  LET parsed == parsePacificDateTime(data.startDateTime, w.serverTz)
      startTime == parsed.t
      endTime == startTime + data.duration
      eventSummary ==
        IF Truthy(data.clientName)
          THEN data.serviceType \o <<":", " ">> \o data.clientName.val
          ELSE data.serviceType
      eventDetails ==
        [summary |-> eventSummary,
         description |-> StrClientLabel \o Interpolate(data.clientName)
                           \o StrPhoneLabel \o data.clientPhone
                           \o <<"\n">> \o data.notes,
         start |-> startTime,
         end |-> endTime]
      event == [id |-> w.nextEventId, cal |-> calendarId] @@ eventDetails
      w1 == [Logged(w, "events.insert", event.id, "ok")
               EXCEPT !.events = @ \cup {event}, !.nextEventId = @ + 1]
      stored == CatchStoreError(appointmentOpsCreate(w1,
                  [client_phone |-> data.clientPhone,
                   barber_id |-> data.barberId,
                   start_time |-> startTime,
                   end_time |-> endTime,
                   google_calendar_event_id |-> event.id], f))
  IN IF ~TsTruthy(data.startDateTime)
       THEN Send(res, w, ErrorBody(400, "start-required"))
     ELSE IF ~parsed.ok THEN Thrown(w, "Error")
     ELSE IF f.insert # "ok"
       THEN Thrown(Logged(w, "events.insert", 0, "error"), "GatewayError")
     ELSE IF stored.thrown THEN Thrown(stored.w, "StoreError")
     ELSE Send(res, stored.w,
               [NoResp EXCEPT !.status = 200, !.success = TRUE,
                              !.action = "create", !.eventId = event.id])

\* the delete filtered on the wrong column: .eq('id', eventId)
DeleteAppointmentRows_ById(w, eventId, f) ==
  IF f.apDelete = "ok"
    THEN [Logged(w, "appointments.delete", eventId, "ok")
            EXCEPT !.rows = {r \in @ : r.id # eventId}]
    ELSE Logged(w, "appointments.delete", eventId, "error")

\* supabase.from('appointments').delete().eq('google_calendar_event_id',
\* eventId), inside try/catch: a failure is logged
DeleteAppointmentRows(w, eventId, f) ==
  IF f.apDelete = "ok"
    THEN [Logged(w, "appointments.delete", eventId, "ok")
            EXCEPT !.rows = {r \in @ : r.google_calendar_event_id # eventId}]
    ELSE Logged(w, "appointments.delete", eventId, "error")

\* handleCancelClientAppointment(calendar, calendarId, eventId, clientName,
\*                               clientPhone, startDateTime, res)
handleCancelClientAppointment(w, calendarId, eventId, clientName, clientPhone, startDateTime, res, f) ==
  LET searchTerm == IF Truthy(clientName) THEN clientName.val ELSE clientPhone
      search == findEventByClientName(w, calendarId, searchTerm, <<>>, f)
      got == EventsGet(w, calendarId, eventId, f)
      w0 == IF eventId = 0 THEN search.w ELSE got.w
      id == IF eventId = 0 THEN search.found[1].id ELSE eventId
      w1 == [Logged(w0, "events.delete", id, "ok")
               EXCEPT !.events = {e \in @ : ~(e.cal = calendarId /\ e.id = id)}]
      w2 == DeleteAppointmentRows(w1, id, f)
  IN IF eventId = 0 /\ ~Truthy(clientName) /\ clientPhone = <<>>
       THEN Send(res, w, ErrorBody(400, "id-or-client-required"))
     ELSE IF eventId = 0 /\ search.thrown THEN Thrown(search.w, "GatewayError")
     ELSE IF eventId = 0 /\ search.found = <<>>
       THEN Send(res, search.w, ErrorBody(404, "no-matching-event"))
     ELSE IF eventId # 0 /\ got.status = 404
       THEN Send(res, got.w, ErrorBody(404, "event-not-found"))
     ELSE IF eventId # 0 /\ got.status # 200 THEN Thrown(got.w, "GatewayError")
     ELSE IF f.delete # "ok"
       THEN Thrown(Logged(w0, "events.delete", id, "error"), "GatewayError")
     ELSE Send(res, w2,
               [NoResp EXCEPT !.status = 200, !.success = TRUE,
                              !.action = "cancel", !.eventId = id])

RECURSIVE ReduceClosest(_, _, _)
\* clientAppointments.reduce((closest, current) => currentDiff < closestDiff
\*                                                   ? current : closest)
ReduceClosest(closest, rest, oldStartTime) ==
  IF rest = <<>> THEN closest
  ELSE LET current == Head(rest)
           currentDiff == Abs(current.start_time - oldStartTime)
           closestDiff == Abs(closest.start_time - oldStartTime)
       IN ReduceClosest(IF currentDiff < closestDiff THEN current ELSE closest,
                        Tail(rest), oldStartTime)

\* the store part of a reschedule (the try block after the remote update):
\* the world after it and the value of dbResult.success (FALSE also when
\* dbResult is undefined)
RescheduleStore(w, eventId, clientPhone, oldStartDateTime, startTime, endTime, f) ==
  LET first == updateByEventId(w, eventId,
                 [start_time |-> startTime, end_time |-> endTime], f)
      \* new Date(oldStartDateTime - 24*60*60*1000).toISOString(): a string
      \* minus a number is NaN, and toISOString of an Invalid Date throws
      rangeThrows == TsTruthy(oldStartDateTime) /\ oldStartDateTime.form # "number"
      range == [startAfter |-> IF TsTruthy(oldStartDateTime)
                                 THEN <<oldStartDateTime.wall - DayMinutes>> ELSE <<>>,
                startBefore |-> IF TsTruthy(oldStartDateTime)
                                  THEN <<oldStartDateTime.wall + DayMinutes>> ELSE <<>>]
      sel == findByClientPhone(first.w, clientPhone, range, f)
      clientAppointments == sel.data
      appointmentToUpdate ==
        IF TsTruthy(oldStartDateTime) /\ Len(clientAppointments) > 1
          THEN ReduceClosest(clientAppointments[1], Tail(clientAppointments),
                             NewDate(oldStartDateTime, w.serverTz).t)
          ELSE clientAppointments[1]
      changed == [appointmentToUpdate EXCEPT !.start_time = startTime,
                                             !.end_time = endTime,
                                             !.google_calendar_event_id = eventId]
      w3 == IF f.apUpdateId = "ok"
              THEN [Logged(sel.w, "appointments.updateById", appointmentToUpdate.id, "ok")
                      EXCEPT !.rows = (@ \ {appointmentToUpdate}) \cup {changed}]
              ELSE Logged(sel.w, "appointments.updateById", appointmentToUpdate.id, "error")
  IN IF first.thrown \/ first.success \/ clientPhone = <<>>
       THEN [w |-> first.w, success |-> first.success]
     ELSE IF rangeThrows THEN [w |-> first.w, success |-> FALSE]
     ELSE IF sel.thrown \/ Len(clientAppointments) = 0
       THEN [w |-> sel.w, success |-> FALSE]
     ELSE [w |-> w3, success |-> f.apUpdateId = "ok"]

\* the updated resource built without ...existingEvent.data
UpdatedEvent_NoSpread(existingEvent, startTime, endTime) ==
  [existingEvent EXCEPT !.summary = <<>>, !.description = <<>>,
                        !.start = startTime, !.end = endTime]

\* updatedEvent = { ...existingEvent.data, start: {...}, end: {...} }
UpdatedEvent(existingEvent, startTime, endTime) ==
  [existingEvent EXCEPT !.start = startTime, !.end = endTime]

\* the create-instead data without the duration of the request
CreateInsteadData_NoDuration(clientPhone, clientName, newStartDateTime, duration) ==
  [clientPhone |-> clientPhone,
   clientName |-> clientName,
   serviceType |-> StrAppointment,
   startDateTime |-> newStartDateTime,
   duration |-> DefaultDuration,
   notes |-> StrFromReschedule,
   barberId |-> 0]

\* "If no event found and we're trying to reschedule, create a new
\* appointment instead": the data handed to handleCreateClientAppointment
CreateInsteadData(clientPhone, clientName, newStartDateTime, duration) ==
  [clientPhone |-> clientPhone,
   clientName |-> clientName,
   serviceType |-> StrAppointment,
   startDateTime |-> newStartDateTime,
   duration |-> duration,
   notes |-> StrFromReschedule,
   barberId |-> 0]

\* handleRescheduleClientAppointment(calendar, calendarId, eventId, clientName,
\*     clientPhone, oldStartDateTime, newStartDateTime, duration, res)
handleRescheduleClientAppointment(w, calendarId, eventId, clientName, clientPhone, oldStartDateTime, newStartDateTime, duration, res, f) ==
  LET searchTerm == IF Truthy(clientName) THEN clientName.val ELSE clientPhone
      search == findEventByClientName(w, calendarId, searchTerm,
                  IF TsTruthy(oldStartDateTime)
                    THEN <<NewDate(oldStartDateTime, w.serverTz)>> ELSE <<>>, f)
      got == EventsGet(w, calendarId, eventId, f)
      w0 == IF eventId = 0 THEN search.w ELSE got.w
      \* no event: create a new appointment instead
      created == handleCreateClientAppointment(w0, calendarId,
                   CreateInsteadData(clientPhone, clientName, newStartDateTime,
                                     duration), res, f)
      existingEvent == IF eventId = 0 THEN search.found[1] ELSE got.found[1]
      id == existingEvent.id
      parsed == parsePacificDateTime(newStartDateTime, w.serverTz)
      startTime == parsed.t
      endTime == startTime + duration
      updatedEvent == UpdatedEvent(existingEvent, startTime, endTime)
      w1 == [Logged(w0, "events.update", id, "ok")
               EXCEPT !.events = (@ \ {existingEvent}) \cup {updatedEvent}]
      db == RescheduleStore(w1, id, clientPhone, oldStartDateTime,
                            startTime, endTime, f)
  IN IF ~TsTruthy(newStartDateTime)
       THEN Send(res, w, ErrorBody(400, "new-start-required"))
     ELSE IF eventId = 0 /\ ~Truthy(clientName) /\ clientPhone = <<>>
       THEN Send(res, w, ErrorBody(400, "id-or-client-required"))
     ELSE IF eventId = 0 /\ search.thrown THEN Thrown(search.w, "GatewayError")
     ELSE IF eventId = 0 /\ search.found = <<>> THEN created
     ELSE IF eventId # 0 /\ got.status = 404 THEN created
     ELSE IF eventId # 0 /\ got.status # 200 THEN Thrown(got.w, "GatewayError")
     ELSE IF ~parsed.ok THEN Thrown(w0, "Error")
     ELSE IF f.update # "ok"
       THEN Thrown(Logged(w0, "events.update", id, "error"), "GatewayError")
     ELSE Send(res, db.w,
               [NoResp EXCEPT !.status = 200, !.success = TRUE,
                              !.action = "reschedule", !.eventId = id,
                              !.dbUpdateSuccess =
                                 IF db.success THEN "true" ELSE "false"])

(***************************************************************************)
(* POST /client-appointment: the route.                                    *)
(***************************************************************************)
StrTrue == <<"t","r","u","e">>

\* a flag of the body: absent, a boolean or a string
FlagAbsent == [typ |-> "absent", b |-> FALSE, s |-> <<>>]
FlagBool(b) == [typ |-> "boolean", b |-> b, s |-> <<>>]
FlagString(s) == [typ |-> "string", b |-> FALSE, s |-> s]

\* the flags used as they arrive: a non-empty string is truthy
CoerceFlag_Truthy(x) ==
  CASE x.typ = "absent" -> FALSE
    [] x.typ = "string" -> x.s # <<>>
    [] OTHER -> x.b

\* isCancelling = false by default; a string is true when it reads "true"
\* in any letter case
CoerceFlag(x) ==
  CASE x.typ = "absent" -> FALSE
    [] x.typ = "string" -> toLowerCase(x.s) = StrTrue
    [] OTHER -> x.b

\* the duration of the body: absent, a number, or a string whose parseInt
\* is n (numeric) or NaN
DurationAbsent == [typ |-> "absent", n |-> 0, numeric |-> FALSE]
DurationNumber(n) == [typ |-> "number", n |-> n, numeric |-> TRUE]
DurationString(n, numeric) == [typ |-> "string", n |-> n, numeric |-> numeric]

\* duration = 30 by default; parseInt(duration, 10) || 30 for a string
CoerceDuration(d) ==
  CASE d.typ = "absent" -> DefaultDuration
    [] d.typ = "string" -> IF d.numeric /\ d.n # 0 THEN d.n ELSE DefaultDuration
    [] OTHER -> d.n

\* barber.selected_calendar_id || 'primary', on the barber's account
CalendarOf(barber) ==
  <<barber.id, IF barber.selected_calendar_id # "" THEN barber.selected_calendar_id
                                                   ELSE "primary">>

\* the route with the two flag branches in the other order: isRescheduling
\* is looked at before isCancelling
Route_RescheduleFirst(w, r, f) ==
  LET clientName == IF r.clientName.def THEN r.clientName ELSE Text(StrNewClient)
      isCancelling == CoerceFlag(r.isCancelling)
      isRescheduling == CoerceFlag(r.isRescheduling)
      duration == CoerceDuration(r.duration)
      got == getByPhoneNumber(w, r.clientPhone, f)
      mustCreate == got.data = <<>> /\ ~isCancelling /\ r.preferredBarberId # 0
      made == createOrUpdate(got.w, [phone_number |-> r.clientPhone,
                                     name |-> clientName.val,
                                     preferred_barber_id |-> r.preferredBarberId], f)
      client == IF mustCreate THEN made.data ELSE got.data
      w1 == IF mustCreate THEN made.w ELSE got.w
      barberId == IF r.preferredBarberId # 0 THEN r.preferredBarberId
                  ELSE client[1].preferred_barber_id
      w2 == Logged(w1, "barbers.select", barberId, Outcome(f.barbers = "ok"))
      hit == {b \in w.barbers : b.id = barberId}
      barber == CHOOSE b \in hit : TRUE
      calendarId == CalendarOf(barber)
      \* clientName || client?.name
      nameOrClient == IF Truthy(clientName) THEN clientName
                      ELSE IF client # <<>> THEN Text(client[1].name)
                      ELSE Undefined
      \* clientName || (client ? client.name : 'New Client')
      nameForCreate == IF Truthy(clientName) THEN clientName
                       ELSE IF client # <<>> THEN Text(client[1].name)
                       ELSE Text(StrNewClient)
  IN IF r.clientPhone = <<>>
       THEN Send(ResObject, w, ErrorBody(400, "phone-required"))
     ELSE IF r.preferredBarberId = 0
             /\ (client = <<>> \/ client[1].preferred_barber_id = 0)
       THEN Send(ResObject, w1, ErrorBody(400, "no-barber"))
     ELSE IF f.barbers # "ok" \/ hit = {} \/ ~barber.refresh_token
       THEN Send(ResObject, w2, ErrorBody(404, "barber-not-found"))
     ELSE IF isRescheduling
       THEN handleRescheduleClientAppointment(w2, calendarId, r.eventId,
              nameOrClient, r.clientPhone, r.startDateTime,
              IF TsTruthy(r.newStartDateTime) THEN r.newStartDateTime
                                              ELSE r.startDateTime,
              duration, ResObject, f)
     ELSE IF isCancelling
       \* six arguments for seven parameters: res lands in startDateTime and
       \* the parameter res gets no argument
       THEN handleCancelClientAppointment(w2, calendarId, r.eventId, nameOrClient,
                                          r.clientPhone, ResObject, NoArgument, f)
     ELSE handleCreateClientAppointment(w2, calendarId,
            [clientPhone |-> r.clientPhone,
             clientName |-> nameForCreate,
             serviceType |-> StrAppointment,
             startDateTime |-> r.startDateTime,
             duration |-> duration,
             notes |-> <<>>,
             barberId |-> barber.id], ResObject, f)

\* router.post('/client-appointment'): the handler's outcome for body r
Route(w, r, f) ==
  LET clientName == IF r.clientName.def THEN r.clientName ELSE Text(StrNewClient)
      isCancelling == CoerceFlag(r.isCancelling)
      isRescheduling == CoerceFlag(r.isRescheduling)
      duration == CoerceDuration(r.duration)
      got == getByPhoneNumber(w, r.clientPhone, f)
      mustCreate == got.data = <<>> /\ ~isCancelling /\ r.preferredBarberId # 0
      made == createOrUpdate(got.w, [phone_number |-> r.clientPhone,
                                     name |-> clientName.val,
                                     preferred_barber_id |-> r.preferredBarberId], f)
      client == IF mustCreate THEN made.data ELSE got.data
      w1 == IF mustCreate THEN made.w ELSE got.w
      barberId == IF r.preferredBarberId # 0 THEN r.preferredBarberId
                  ELSE client[1].preferred_barber_id
      w2 == Logged(w1, "barbers.select", barberId, Outcome(f.barbers = "ok"))
      hit == {b \in w.barbers : b.id = barberId}
      barber == CHOOSE b \in hit : TRUE
      calendarId == CalendarOf(barber)
      \* clientName || client?.name
      nameOrClient == IF Truthy(clientName) THEN clientName
                      ELSE IF client # <<>> THEN Text(client[1].name)
                      ELSE Undefined
      \* clientName || (client ? client.name : 'New Client')
      nameForCreate == IF Truthy(clientName) THEN clientName
                       ELSE IF client # <<>> THEN Text(client[1].name)
                       ELSE Text(StrNewClient)
  IN IF r.clientPhone = <<>>
       THEN Send(ResObject, w, ErrorBody(400, "phone-required"))
     ELSE IF r.preferredBarberId = 0
             /\ (client = <<>> \/ client[1].preferred_barber_id = 0)
       THEN Send(ResObject, w1, ErrorBody(400, "no-barber"))
     ELSE IF f.barbers # "ok" \/ hit = {} \/ ~barber.refresh_token
       THEN Send(ResObject, w2, ErrorBody(404, "barber-not-found"))
     ELSE IF isCancelling
       \* six arguments for seven parameters: res lands in startDateTime and
       \* the parameter res gets no argument
       THEN handleCancelClientAppointment(w2, calendarId, r.eventId, nameOrClient,
                                          r.clientPhone, ResObject, NoArgument, f)
     ELSE IF isRescheduling
       THEN handleRescheduleClientAppointment(w2, calendarId, r.eventId,
              nameOrClient, r.clientPhone, r.startDateTime,
              IF TsTruthy(r.newStartDateTime) THEN r.newStartDateTime
                                              ELSE r.startDateTime,
              duration, ResObject, f)
     ELSE handleCreateClientAppointment(w2, calendarId,
            [clientPhone |-> r.clientPhone,
             clientName |-> nameForCreate,
             serviceType |-> StrAppointment,
             startDateTime |-> r.startDateTime,
             duration |-> duration,
             notes |-> <<>>,
             barberId |-> barber.id], ResObject, f)

\* the route without its catch: a thrown error leaves the request unanswered
Answer_NoCatch(out) == out.resp

\* the catch of the route: a thrown error is answered with 500
Answer(out) ==
  IF out.thrown THEN [NoResp EXCEPT !.status = 500, !.error = out.err]
  ELSE out.resp

(***************************************************************************)
(* POST /create-event: the route and its three handlers.                   *)
(***************************************************************************)
StrUnknownClient ==
  <<"U","n","k","n","o","w","n"," ","C","l","i","e","n","t">>
StrBookingViaSMS ==
  <<"B","o","o","k","i","n","g"," ","v","i","a"," ","S","M","S">>
StrCreate == <<"c","r","e","a","t","e">>
StrCancel == <<"c","a","n","c","e","l">>
StrReschedule == <<"r","e","s","c","h","e","d","u","l","e">>

\* duration * 60000 is NaN: duration is undefined or a string that is not
\* a number
DurationIsNaN(d) == d.typ = "absent" \/ (d.typ = "string" /\ ~d.numeric)

\* handleCreateEvent(calendar, calendarId, data, barber, res): data is the
\* request body itself, without the defaults of the route
handleCreateEvent(w, calendarId, data, barber, res, f) ==
  LET parsed == parsePacificDateTime(data.startDateTime, w.serverTz)
      startTime == parsed.t
      endTime == startTime + data.duration.n
      eventSummary ==
        IF Truthy(data.clientName)
          THEN Interpolate(data.service) \o <<":", " ">> \o data.clientName.val
          ELSE data.service.val
      eventDetails ==
        [summary |-> eventSummary,
         description |-> IF Truthy(data.notes) THEN data.notes.val
                                               ELSE StrBookingViaSMS,
         start |-> startTime,
         end |-> endTime]
      event == [id |-> w.nextEventId, cal |-> calendarId] @@ eventDetails
      w1 == [Logged(w, "events.insert", event.id, "ok")
               EXCEPT !.events = @ \cup {event}, !.nextEventId = @ + 1]
      clientPhoneOrName == IF Truthy(data.clientName) THEN data.clientName.val
                                                      ELSE StrUnknownClient
      stored == CatchStoreError(appointmentOpsCreate(w1,
                  [client_phone |-> clientPhoneOrName,
                   barber_id |-> barber.id,
                   start_time |-> startTime,
                   end_time |-> endTime,
                   google_calendar_event_id |-> event.id], f))
  IN IF ~TsTruthy(data.startDateTime)
       THEN Send(res, w, ErrorBody(400, "start-required"))
     ELSE IF ~parsed.ok THEN Thrown(w, "Error")
     \* endTime.toISOString() of an Invalid Date
     ELSE IF DurationIsNaN(data.duration) THEN Thrown(w, "RangeError")
     ELSE IF f.insert # "ok"
       THEN Thrown(Logged(w, "events.insert", 0, "error"), "GatewayError")
     ELSE Send(res, stored.w,
               [NoResp EXCEPT !.status = 200, !.success = TRUE,
                              !.action = "create", !.eventId = event.id])

\* handleCancelEvent(calendar, calendarId, eventId, clientName, res): the
\* search by name reads startDateTime, which is not declared in its scope
handleCancelEvent(w, calendarId, eventId, clientName, res, f) ==
  LET got == EventsGet(w, calendarId, eventId, f)
      w1 == [Logged(got.w, "events.delete", eventId, "ok")
               EXCEPT !.events = {e \in @ : ~(e.cal = calendarId /\ e.id = eventId)}]
  IN IF eventId = 0 /\ ~Truthy(clientName)
       THEN Send(res, w, ErrorBody(400, "id-or-client-required"))
     ELSE IF eventId = 0 THEN Thrown(w, "ReferenceError")
     ELSE IF got.status = 404
       THEN Send(res, got.w, ErrorBody(404, "event-not-found"))
     ELSE IF got.status # 200 THEN Thrown(got.w, "GatewayError")
     ELSE IF f.delete # "ok"
       THEN Thrown(Logged(got.w, "events.delete", eventId, "error"), "GatewayError")
     ELSE Send(res, w1,
               [NoResp EXCEPT !.status = 200, !.success = TRUE,
                              !.action = "cancel", !.eventId = eventId])

\* handleRescheduleEvent(calendar, calendarId, eventId, data, res): once the
\* event is resolved it reads newStartDateTime, which is not declared in
\* its scope
handleRescheduleEvent(w, calendarId, eventId, data, res, f) ==
  LET search == findEventByClientName(w, calendarId, data.clientName.val, <<>>, f)
      got == EventsGet(w, calendarId, eventId, f)
  IN IF ~TsTruthy(data.startDateTime)
       THEN Send(res, w, ErrorBody(400, "new-start-required"))
     ELSE IF eventId = 0 /\ ~Truthy(data.clientName)
       THEN Send(res, w, ErrorBody(400, "id-or-client-required"))
     ELSE IF eventId = 0 /\ search.thrown THEN Thrown(search.w, "GatewayError")
     ELSE IF eventId = 0 /\ search.found = <<>>
       THEN Send(res, search.w, ErrorBody(404, "no-matching-event"))
     ELSE IF eventId = 0 THEN Thrown(search.w, "ReferenceError")
     ELSE IF got.status = 404
       THEN Send(res, got.w, ErrorBody(404, "event-not-found"))
     ELSE IF got.status # 200 THEN Thrown(got.w, "GatewayError")
     ELSE Thrown(got.w, "ReferenceError")

\* router.post('/create-event'): the handler's outcome for body r
CreateEventRoute(w, r, f) ==
  LET action == toLowerCase(IF r.action.def THEN r.action.val ELSE StrCreate)
      got == barberGetByPhoneNumber(w, r.phoneNumber, f)
      barber == got.data[1]
      calendarId == CalendarOf(barber)
  IN IF r.phoneNumber = <<>>
       THEN Send(ResObject, w, ErrorBody(400, "phone-required"))
     ELSE IF got.data = <<>> \/ ~barber.refresh_token
       THEN Send(ResObject, got.w, ErrorBody(404, "barber-not-found"))
     ELSE IF action = StrCreate
       THEN handleCreateEvent(got.w, calendarId, r, barber, ResObject, f)
     ELSE IF action = StrCancel
       THEN handleCancelEvent(got.w, calendarId, r.eventId, r.clientName,
                              ResObject, f)
     ELSE IF action = StrReschedule
       THEN handleRescheduleEvent(got.w, calendarId, r.eventId, r, ResObject, f)
     ELSE Send(ResObject, got.w, ErrorBody(400, "unknown-action"))

(***************************************************************************)
(* The environment: request bodies and collaborator failures.              *)
(***************************************************************************)
\* 09:00 and 14:00 wall clock of day 0, 09:00 of day 2; the PDT offset
Wall0900 == 9 * 60
Wall1400 == 14 * 60
Wall0900Day2 == 2 * DayMinutes + 9 * 60
OffsetPDT == 0 - 420

NoReq == [clientPhone |-> <<>>, clientName |-> Undefined, startDateTime |-> NoTs,
          newStartDateTime |-> NoTs, duration |-> DurationAbsent,
          preferredBarberId |-> 0, isCancelling |-> FlagAbsent,
          isRescheduling |-> FlagAbsent, eventId |-> 0]

\* a client with a stored preferred barber asks for 09:00
BaseRequest == [NoReq EXCEPT !.clientPhone = PhoneA, !.clientName = Text(NameJo)]

\* a client the store may not know yet names the barber
OtherRequest == [NoReq EXCEPT !.clientPhone = PhoneB, !.preferredBarberId = 1]

CreateRequests ==
  {[BaseRequest EXCEPT !.startDateTime = Naive(Wall0900)],
   [BaseRequest EXCEPT !.startDateTime = Offset(Wall0900Day2, OffsetPDT),
                       !.duration = DurationNumber(45)],
   [OtherRequest EXCEPT !.startDateTime = Naive(Wall0900),
                        !.duration = DurationString(45, TRUE)],
   [OtherRequest EXCEPT !.startDateTime = Naive(Wall0900),
                        !.preferredBarberId = 0],
   [BaseRequest EXCEPT !.startDateTime = Naive(Wall0900), !.clientPhone = <<>>],
   BaseRequest,
   [BaseRequest EXCEPT !.startDateTime = Malformed],
   [BaseRequest EXCEPT !.startDateTime = Naive(Wall0900),
                       !.preferredBarberId = 3],
   [BaseRequest EXCEPT !.startDateTime = Naive(Wall0900),
                       !.preferredBarberId = 4],
   [BaseRequest EXCEPT !.startDateTime = Naive(Wall0900),
                       !.isCancelling = FlagString(<<"F","a","l","s","e">>),
                       !.isRescheduling = FlagString(<<"F","A","L","S","E">>)]}

EventIdInputs == 0..MaxEvents

RescheduleRequests ==
  {[b EXCEPT !.isRescheduling = FlagBool(TRUE), !.eventId = e,
             !.startDateTime = s,
             !.newStartDateTime = Offset(Wall1400, OffsetPDT)] :
     b \in {BaseRequest, OtherRequest}, e \in EventIdInputs,
     s \in {NoTs, Naive(Wall0900), Number(Wall0900)}}
  \cup
  {[BaseRequest EXCEPT !.isRescheduling = FlagBool(TRUE), !.eventId = e,
                       !.newStartDateTime = Offset(Wall1400, OffsetPDT),
                       !.duration = DurationNumber(45)] : e \in EventIdInputs}
  \cup
  {[BaseRequest EXCEPT !.isRescheduling = FlagString(<<"T","r","u","e">>),
                       !.eventId = 1],
   [BaseRequest EXCEPT !.isRescheduling = FlagString(<<"T","r","u","e">>),
                       !.eventId = 1, !.startDateTime = Naive(Wall1400)]}

CancelRequests ==
  {[b EXCEPT !.isCancelling = FlagBool(TRUE), !.eventId = e] :
     b \in {BaseRequest, OtherRequest}, e \in EventIdInputs}
  \cup
  {[BaseRequest EXCEPT !.isCancelling = FlagString(<<"t","r","u","e">>),
                       !.eventId = 1],
   [BaseRequest EXCEPT !.isCancelling = FlagBool(TRUE),
                       !.isRescheduling = FlagBool(TRUE), !.eventId = 1,
                       !.newStartDateTime = Offset(Wall1400, OffsetPDT)],
   \* a second client who is also called Jo cancels by name
   [OtherRequest EXCEPT !.clientName = Text(NameJo),
                        !.isCancelling = FlagBool(TRUE)]}

Requests == CreateRequests \cup RescheduleRequests \cup CancelRequests

\* every collaborator call succeeds
AllOk == [clients |-> "ok", clientWrite |-> "ok", barbers |-> "ok",
          list |-> "ok", get |-> "ok", insert |-> "ok", update |-> "ok",
          delete |-> "ok", apInsert |-> "ok", apUpdate |-> "ok",
          apSelect |-> "ok", apUpdateId |-> "ok", apDelete |-> "ok",
          order |-> "asc"]

StoreFailures == {"error", "throw"}

\* the failures the environment may inject into one request: none, one
\* failing lookup, one failing gateway call, or failing appointment-table
\* calls
LookupFaults ==
  {[AllOk EXCEPT ![k] = "error"] : k \in {"clients", "clientWrite", "barbers"}}

GatewayFaults(ks) == {[AllOk EXCEPT ![k] = "error"] : k \in ks}

RescheduleStoreFaults ==
  {[AllOk EXCEPT !.order = "desc"]}
  \cup {[AllOk EXCEPT !.apUpdate = a] : a \in StoreFailures}
  \cup {[AllOk EXCEPT !.apSelect = a] : a \in StoreFailures}
  \cup {[AllOk EXCEPT !.apUpdateId = a] : a \in StoreFailures}
  \cup {[AllOk EXCEPT !.apUpdate = "error", !.apUpdateId = "error"]}
  \cup {[AllOk EXCEPT !.apInsert = a] : a \in StoreFailures}

FaultsFor(r) ==
  {AllOk} \cup LookupFaults \cup
  IF CoerceFlag(r.isCancelling)
    THEN GatewayFaults({"list", "get", "delete"})
           \cup {[AllOk EXCEPT !.apDelete = a] : a \in StoreFailures}
  ELSE IF CoerceFlag(r.isRescheduling)
    THEN GatewayFaults({"list", "get", "update", "insert"})
           \cup RescheduleStoreFaults
  ELSE GatewayFaults({"insert"})
         \cup {[AllOk EXCEPT !.apInsert = a] : a \in StoreFailures}

\* the phone number of the barber with the given id
BarberPhone(id) == <<"9", "0", <<"1", "2", "3">>[id]>>

\* a body of POST /create-event
NoEventReq == [action |-> Undefined, phoneNumber |-> <<>>, startDateTime |-> NoTs,
               clientName |-> Undefined, duration |-> DurationAbsent,
               service |-> Undefined, notes |-> Undefined, eventId |-> 0]

\* barber 1 books 45 minutes at 09:00 for Jo
BaseEventRequest ==
  [NoEventReq EXCEPT !.phoneNumber = BarberPhone(1),
                     !.clientName = Text(NameJo),
                     !.startDateTime = Naive(Wall0900),
                     !.duration = DurationNumber(45),
                     !.service = Text(StrAppointment)]

EventCreateRequests ==
  {BaseEventRequest,
   [BaseEventRequest EXCEPT !.duration = DurationAbsent],
   [BaseEventRequest EXCEPT !.phoneNumber = BarberPhone(3)]}

EventCancelRequests ==
  {[BaseEventRequest EXCEPT !.action = Text(<<"C","a","n","c","e","l">>),
                            !.eventId = e] : e \in EventIdInputs}
  \cup
  \* neither event id nor client name
  {[BaseEventRequest EXCEPT !.action = Text(StrCancel), !.clientName = Undefined]}

EventRescheduleRequests ==
  {[BaseEventRequest EXCEPT !.action = Text(StrReschedule), !.eventId = 1,
                            !.startDateTime = Offset(Wall1400, OffsetPDT)]}

EventRequests ==
  EventCreateRequests \cup EventCancelRequests \cup EventRescheduleRequests

\* the failures the environment may inject into one /create-event request
EventFaultsFor(r) ==
  {AllOk, [AllOk EXCEPT !.barbers = "error"]} \cup
  IF r \in EventCancelRequests THEN GatewayFaults({"get", "delete"})
  ELSE IF r \in EventRescheduleRequests THEN GatewayFaults({"get"})
  ELSE GatewayFaults({"insert"})
         \cup {[AllOk EXCEPT !.apInsert = a] : a \in StoreFailures}

(***************************************************************************)
(* The state machine.                                                      *)
(***************************************************************************)
\* the zones the server may run in (minutes east of UTC): UTC
ServerZones == {0}

\* the name of the barber with the given id
BarberName(id) == <<<<"A","l">>, <<"A","l","e","x">>, <<"B","o">>>>[id]

Barber(id, token, cal) ==
  [id |-> id, name |-> BarberName(id), phone_number |-> BarberPhone(id),
   email |-> "", refresh_token |-> token, selected_calendar_id |-> cal]

\* the row of the client the table holds at the start: Jo, who prefers
\* barber 1 and has no conversation stored (null)
ClientJo == [name |-> NameJo, preferred_barber_id |-> 1,
             conversation_history |-> <<>>]

Init ==
  /\ events = {}
  /\ rows = {}
  /\ clients = (PhoneA :> ClientJo)
  /\ barbers = {Barber(1, TRUE, ""), Barber(2, TRUE, "shop"), Barber(3, FALSE, "")}
  /\ nextEventId = 1
  /\ nextRowId = 1
  /\ now = 600
  /\ serverTz \in ServerZones
  /\ pc = "idle"
  /\ req = NoReq
  /\ resp = NoResp
  /\ calls = <<>>
  /\ served = 0
  /\ input = <<>>
  /\ output = <<>>

\* a request of POST /client-appointment arrives
Receive ==
  /\ pc = "idle"
  /\ served < MaxRequests
  /\ \E r \in Requests : req' = r
  /\ pc' = "received"
  /\ served' = served + 1
  /\ UNCHANGED <<events, rows, clients, barbers, nextEventId, nextRowId, now,
                 serverTz, resp, calls, input, output>>

\* a request of POST /create-event arrives
ReceiveEvent ==
  /\ pc = "idle"
  /\ served < MaxRequests
  /\ \E r \in EventRequests : req' = r
  /\ pc' = "received"
  /\ served' = served + 1
  /\ UNCHANGED <<events, rows, clients, barbers, nextEventId, nextRowId, now,
                 serverTz, resp, calls, input, output>>

\* router.post('/client-appointment') serves it
ClientAppointment ==
  /\ pc = "received"
  /\ "clientPhone" \in DOMAIN req
  /\ \E f \in FaultsFor(req) :
       \E out \in {Route(World, req, f)} :
         /\ out.w.nextEventId <= MaxEvents + 1
         /\ events' = out.w.events
         /\ rows' = out.w.rows
         /\ clients' = out.w.clients
         /\ nextEventId' = out.w.nextEventId
         /\ nextRowId' = out.w.nextRowId
         /\ calls' = out.w.calls
         /\ resp' = Answer(out)
  /\ pc' = "done"
  /\ UNCHANGED <<barbers, now, serverTz, req, served, input, output>>

\* router.post('/create-event') serves it
CreateEvent ==
  /\ pc = "received"
  /\ req \in EventRequests
  /\ \E f \in EventFaultsFor(req) :
       \E out \in {CreateEventRoute(World, req, f)} :
         /\ out.w.nextEventId <= MaxEvents + 1
         /\ events' = out.w.events
         /\ rows' = out.w.rows
         /\ clients' = out.w.clients
         /\ nextEventId' = out.w.nextEventId
         /\ nextRowId' = out.w.nextRowId
         /\ calls' = out.w.calls
         /\ resp' = Answer(out)
  /\ pc' = "done"
  /\ UNCHANGED <<barbers, now, serverTz, req, served, input, output>>

\* the response has gone out
Deliver ==
  /\ pc = "done"
  /\ pc' = "idle"
  /\ req' = NoReq
  /\ resp' = NoResp
  /\ calls' = <<>>
  /\ UNCHANGED <<events, rows, clients, barbers, nextEventId, nextRowId, now,
                 serverTz, served, input, output>>

\* the requests of POST /client-appointment
Next == Receive \/ ClientAppointment \/ Deliver

Spec == Init /\ [][Next]_vars

\* the requests of POST /client-appointment and of POST /create-event, in
\* any order
NextBothRoutes ==
  Receive \/ ReceiveEvent \/ ClientAppointment \/ CreateEvent \/ Deliver

SpecBothRoutes == Init /\ [][NextBothRoutes]_vars

(***************************************************************************)
(* findEventByClientName applied on its own: the calendar holds any subset *)
(* of a few events around `now`, and the function is applied once to a     *)
(* name and a target date.                                                 *)
(***************************************************************************)
ResolverCalendar == <<1, "primary">>
OtherCalendar == <<2, "shop">>

StrAl == <<"A","l">>
StrCutJO == <<"C","u","t",":"," ","J","O">>
StrForJo == <<"f","o","r"," ","j","o">>

ResolverEvent(id, cal, summary, description, start) ==
  [id |-> id, cal |-> cal, summary |-> summary, description |-> description,
   start |-> start, end |-> start + DefaultDuration]

\* two past and two upcoming matches of "jo" (one of them by its
\* description only), an event of another name and one on another calendar
ResolverEvents ==
  {ResolverEvent(1, ResolverCalendar, StrAppointment \o <<":", " ">> \o NameJo, <<>>, 300),
   ResolverEvent(2, ResolverCalendar, StrCutJO, <<>>, 540),
   ResolverEvent(3, ResolverCalendar, StrAppointment \o <<":", " ">> \o StrAl, StrForJo, 660),
   ResolverEvent(4, ResolverCalendar, StrAppointment \o <<":", " ">> \o NameJo, <<>>, 780),
   ResolverEvent(5, ResolverCalendar, StrAppointment \o <<":", " ">> \o StrAl, <<>>, 900),
   ResolverEvent(6, OtherCalendar, StrAppointment \o <<":", " ">> \o NameJo, <<>>, 600)}

ResolverNames == {NameJo, <<" ","j","O"," ">>, StrAl, <<"Z","e","d">>}

\* null, dates before, between and on the events, and an Invalid Date
ResolverDates ==
  {<<>>, <<ValidDate(0)>>, <<ValidDate(600)>>, <<ValidDate(720)>>,
   <<ValidDate(780)>>, <<InvalidDate>>}

ResolverFaults == {AllOk, [AllOk EXCEPT !.list = "error"]}

ResolverInit ==
  /\ events \in SUBSET ResolverEvents
  /\ rows = {}
  /\ clients = (PhoneA :> ClientJo)
  /\ barbers = {Barber(1, TRUE, ""), Barber(2, TRUE, "shop"), Barber(3, FALSE, "")}
  /\ nextEventId = 7
  /\ nextRowId = 1
  /\ now = 600
  /\ serverTz \in ServerZones
  /\ pc = "idle"
  /\ req = NoReq
  /\ resp = NoResp
  /\ calls = <<>>
  /\ served = 0
  /\ input = <<>>
  /\ output = <<>>

\* findEventByClientName(calendar, calendarId, clientName, appointmentDate)
Resolve ==
  /\ pc = "idle"
  /\ \E clientName \in ResolverNames, appointmentDate \in ResolverDates,
        f \in ResolverFaults :
       \E out \in {findEventByClientName(World, ResolverCalendar, clientName,
                                         appointmentDate, f)} :
         /\ input' = [clientName |-> clientName,
                      appointmentDate |-> appointmentDate]
         /\ output' = [thrown |-> out.thrown, found |-> out.found]
         /\ calls' = out.w.calls
  /\ pc' = "resolved"
  /\ UNCHANGED <<events, rows, clients, barbers, nextEventId, nextRowId, now,
                 serverTz, req, resp, served>>

SpecResolver == ResolverInit /\ [][Resolve]_vars

(***************************************************************************)
(* parsePacificDateTime applied on its own, on servers of several local    *)
(* zones.                                                                  *)
(***************************************************************************)
\* local zones of the server, minutes east of UTC
ParserZones == {0, 0 - 420, 0 - 480, 60}

\* instants, and the offsets they are rendered with
ParserInstants == {0, Wall0900, Wall1400 + PacificShift, Wall0900Day2}
ParserOffsets == {0, OffsetPDT, 0 - 480, 330}
ParserFractions == {<<>>, <<"5">>, <<"1","2","3">>, <<"0","0","0">>}

ParserInputs ==
  {WithFraction(Offset(t + o, o), d) :
     t \in ParserInstants, o \in ParserOffsets, d \in ParserFractions}
  \cup {WithFraction(Zulu(t), d) : t \in ParserInstants, d \in ParserFractions}
  \cup {WithFraction(Naive(t), d) : t \in ParserInstants, d \in ParserFractions}
  \cup {Loose(t) : t \in ParserInstants}
  \cup {Malformed, Number(Wall0900)}

ParserInit ==
  /\ events = {}
  /\ rows = {}
  /\ clients = (PhoneA :> ClientJo)
  /\ barbers = {Barber(1, TRUE, ""), Barber(2, TRUE, "shop"), Barber(3, FALSE, "")}
  /\ nextEventId = 1
  /\ nextRowId = 1
  /\ now = 600
  /\ serverTz \in ParserZones
  /\ pc = "idle"
  /\ req = NoReq
  /\ resp = NoResp
  /\ calls = <<>>
  /\ served = 0
  /\ input = <<>>
  /\ output = <<>>

\* parsePacificDateTime(dateTimeString)
Parse ==
  /\ pc = "idle"
  /\ \E dateTimeString \in ParserInputs :
       /\ input' = dateTimeString
       /\ output' = parsePacificDateTime(dateTimeString, serverTz)
  /\ pc' = "parsed"
  /\ UNCHANGED <<events, rows, clients, barbers, nextEventId, nextRowId, now,
                 serverTz, req, resp, calls, served>>

SpecParser == ParserInit /\ [][Parse]_vars

(***************************************************************************)
(* POST /check-availability.                                               *)
(***************************************************************************)
StrZapier == <<"z","a","p","i","e","r">>
StrStandard == <<"s","t","a","n","d","a","r","d">>

\* startDateTime.match(/^(\d{4})-(\d{2})-(\d{2})T(\d{2}):(\d{2})(?::(\d{2}))?/):
\* "throws" when the value is no string
MatchComponents(ts) ==
  IF ts.form \in {"absent", "number"} THEN "throws"
  ELSE IF ts.form = "malformed" THEN "null"
  ELSE "match"

\* new Date(`${startDateTime.split('.')[0]}-07:00`): what follows the first
\* dot is cut off, an offset of the string included, and -07:00 is appended
PacificStamped(ts) ==
  IF ts.form = "naive" \/ (ts.form \in {"offset", "zulu"} /\ ts.frac # <<>>)
    THEN ValidDate(ts.wall + PacificShift)
    ELSE InvalidDate

\* supabase.from('barbers').select('*').eq('id', barberId).single(): the
\* error is dropped and data is null
barberGetById(w, barberId, f) ==
  LET hit == {b \in w.barbers : b.id = barberId}
  IN [w |-> Logged(w, "barbers.select", barberId, Outcome(f.barbers = "ok")),
      data |-> IF f.barbers = "ok" /\ hit # {} THEN <<CHOOSE b \in hit : TRUE>>
               ELSE <<>>]

\* the body of a response of the route: isAvailable is "absent" when the
\* body has no such field; events are the ids of the events it lists
NoAvailability == [status |-> 0, isAvailable |-> "absent", events |-> <<>>, error |-> "none"]

AvailabilityError(status, e) == [NoAvailability EXCEPT !.status = status, !.error = e]

\* router.post('/check-availability')
CheckAvailability(w, r, f) ==
  LET got == IF r.barberPhoneNumber # <<>>
               THEN barberGetByPhoneNumber(w, r.barberPhoneNumber, f)
               ELSE barberGetById(w, r.barberId, f)
      barber == got.data[1]
      calendarId == CalendarOf(barber)
      timeMin == PacificStamped(r.startDateTime)
      timeMax == PacificStamped(r.endDateTime)
      listed == EventsList(got.w, calendarId, timeMin.t, timeMax.t)
      ids == [i \in 1..Len(listed) |-> listed[i].id]
      w1 == Logged(got.w, "events.list", 0, Outcome(f.list = "ok"))
  IN IF r.barberPhoneNumber = <<>> /\ r.barberId = 0
       THEN [w |-> w, resp |-> AvailabilityError(400, "barber-required")]
     ELSE IF got.data = <<>> \/ ~barber.refresh_token
       THEN [w |-> got.w, resp |-> AvailabilityError(404, "barber-not-found")]
     ELSE IF MatchComponents(r.startDateTime) = "throws"
       THEN [w |-> got.w, resp |-> AvailabilityError(500, "TypeError")]
     ELSE IF MatchComponents(r.endDateTime) = "throws"
       THEN [w |-> got.w, resp |-> AvailabilityError(500, "TypeError")]
     ELSE IF MatchComponents(r.startDateTime) = "null"
               \/ MatchComponents(r.endDateTime) = "null"
       THEN [w |-> got.w, resp |-> AvailabilityError(400, "invalid-date-format")]
     ELSE IF ~timeMin.valid \/ ~timeMax.valid
       THEN [w |-> got.w, resp |-> AvailabilityError(500, "RangeError")]
     ELSE IF f.list # "ok"
       THEN [w |-> w1, resp |-> AvailabilityError(500, "Error")]
     ELSE IF ~r.returnFormat.def \/ r.returnFormat.val = StrZapier
       THEN [w |-> w1, resp |-> [NoAvailability EXCEPT !.status = 200, !.events = ids]]
     ELSE [w |-> w1,
           resp |-> [NoAvailability EXCEPT
                       !.status = 200,
                       !.isAvailable = IF Len(listed) = 0 THEN "true" ELSE "false",
                       !.events = ids]]

\* a calendar event that only has its place in time
BusyEvent(id, cal, start, end) ==
  [id |-> id, cal |-> cal, summary |-> StrAppointment, description |-> <<>>,
   start |-> start, end |-> end]

\* events around the window 09:00-09:30 of day 0 read at UTC-7 (960-990):
\* one ending at its start, one starting at its end, one across its start,
\* one at 09:00 UTC, one at 09:00 UTC-7 of day 2 and one on another calendar
AvailabilityEvents ==
  {BusyEvent(1, ResolverCalendar, 930, 960),
   BusyEvent(2, ResolverCalendar, 990, 1020),
   BusyEvent(3, ResolverCalendar, 945, 975),
   BusyEvent(4, ResolverCalendar, Wall0900, Wall0900 + DefaultDuration),
   BusyEvent(5, ResolverCalendar, Wall0900Day2 + PacificShift,
             Wall0900Day2 + PacificShift + DefaultDuration),
   BusyEvent(6, OtherCalendar, 960, 990)}

\* the windows asked for: [startDateTime, endDateTime]
AvailabilityWindows ==
  {<<Naive(Wall0900), Naive(Wall0900 + DefaultDuration)>>,
   <<WithFraction(Naive(Wall0900), <<"0">>), Naive(Wall0900 + DefaultDuration)>>,
   <<Naive(Wall0900Day2), Naive(Wall0900Day2 + DefaultDuration)>>,
   <<Offset(Wall0900, OffsetPDT), Offset(Wall0900 + DefaultDuration, OffsetPDT)>>,
   <<Zulu(Wall0900 + PacificShift), Zulu(Wall0900 + PacificShift + DefaultDuration)>>,
   <<WithFraction(Zulu(Wall0900 + PacificShift), <<"0","0","0">>),
     WithFraction(Zulu(Wall0900 + PacificShift + DefaultDuration), <<"0","0","0">>)>>,
   <<Malformed, Naive(Wall0900 + DefaultDuration)>>,
   <<Naive(Wall0900), NoTs>>}

AvailabilityRequests ==
  {[barberPhoneNumber |-> p, barberId |-> b, startDateTime |-> win[1],
    endDateTime |-> win[2], returnFormat |-> fmt] :
     p \in {<<>>, BarberPhone(1)}, b \in {0, 1, 3}, win \in AvailabilityWindows,
     fmt \in {Undefined, Text(StrZapier), Text(StrStandard)}}

AvailabilityFaults ==
  {AllOk, [AllOk EXCEPT !.list = "error"], [AllOk EXCEPT !.barbers = "error"]}

AvailabilityInit ==
  /\ events \in SUBSET AvailabilityEvents
  /\ rows = {}
  /\ clients = (PhoneA :> ClientJo)
  /\ barbers = {Barber(1, TRUE, ""), Barber(2, TRUE, "shop"), Barber(3, FALSE, "")}
  /\ nextEventId = 7
  /\ nextRowId = 1
  /\ now = 600
  /\ serverTz \in ServerZones
  /\ pc = "idle"
  /\ req = NoReq
  /\ resp = NoResp
  /\ calls = <<>>
  /\ served = 0
  /\ input = <<>>
  /\ output = <<>>

\* a request of POST /check-availability is served
ServeCheckAvailability ==
  /\ pc = "idle"
  /\ \E r \in AvailabilityRequests, f \in AvailabilityFaults :
       \E out \in {CheckAvailability(World, r, f)} :
         /\ input' = r
         /\ output' = out.resp
         /\ calls' = out.w.calls
  /\ pc' = "checked"
  /\ UNCHANGED <<events, rows, clients, barbers, nextEventId, nextRowId, now,
                 serverTz, req, resp, served>>

SpecAvailability == AvailabilityInit /\ [][ServeCheckAvailability]_vars

(***************************************************************************)
(* POST /client-appointment with durations of every kind.                  *)
(***************************************************************************)
\* a number that is 0, negative or positive, and strings whose parseInt is
\* 0, negative, NaN or positive
DurationInputs ==
  {DurationAbsent, DurationNumber(0), DurationNumber(0 - DefaultDuration),
   DurationNumber(45), DurationString(0, TRUE),
   DurationString(0 - DefaultDuration, TRUE), DurationString(0, FALSE),
   DurationString(45, TRUE)}

DurationRequests ==
  {[BaseRequest EXCEPT !.startDateTime = Naive(Wall0900), !.duration = d] :
     d \in DurationInputs}
  \cup
  {[BaseRequest EXCEPT !.isRescheduling = FlagBool(TRUE), !.eventId = 1,
                       !.newStartDateTime = Offset(Wall1400, OffsetPDT),
                       !.duration = d] : d \in DurationInputs}

\* a request of POST /client-appointment with one of these durations arrives
ReceiveDuration ==
  /\ pc = "idle"
  /\ served < MaxRequests
  /\ \E r \in DurationRequests : req' = r
  /\ pc' = "received"
  /\ served' = served + 1
  /\ UNCHANGED <<events, rows, clients, barbers, nextEventId, nextRowId, now,
                 serverTz, resp, calls, input, output>>

NextDurations == ReceiveDuration \/ ClientAppointment \/ Deliver

SpecDurations == Init /\ [][NextDurations]_vars

(***************************************************************************)
(* The client routes: POST /register-client, /update-client-preference     *)
(* and /store-conversation.                                                *)
(***************************************************************************)
IsDigit(c) == c \in {"0", "1", "2", "3", "4", "5", "6", "7", "8", "9"}

\* formattedPhone.replace(/\D/g, '')
Digits(s) == SelectSeq(s, IsDigit)

\* the phone number /register-client stores: <<>> stands for the 400 answer
\* 'Invalid phone number format'
FormatPhone(clientPhone) ==
  IF Head(clientPhone) = "+" THEN clientPhone
  ELSE IF Len(Digits(clientPhone)) = 10
    THEN <<"+", "1">> \o Digits(clientPhone)
  ELSE IF Len(Digits(clientPhone)) = 11 /\ Head(Digits(clientPhone)) = "1"
    THEN <<"+">> \o Digits(clientPhone)
  ELSE <<>>

\* supabase.from('barbers').select('id, name').ilike('name', `%${name}%`)
\* .single(): an error unless exactly one row matches
barberGetByName(w, preferredBarberName, f) ==
  LET hit == {b \in w.barbers :
                includes(toLowerCase(b.name), toLowerCase(preferredBarberName))}
  IN [w |-> Logged(w, "barbers.select", 0,
                   Outcome(f.barbers = "ok" /\ Cardinality(hit) = 1)),
      data |-> IF f.barbers = "ok" /\ Cardinality(hit) = 1
                 THEN <<CHOOSE b \in hit : TRUE>> ELSE <<>>]

\* the answer of a client route: its status and, for /store-conversation,
\* the conversation history it returns
ClientAnswer(status) == [status |-> status, conversationHistory |-> <<>>]

\* router.post('/register-client')
RegisterClient(w, r, f) ==
  LET formattedPhone == FormatPhone(r.clientPhone)
      found == barberGetByName(w, r.preferredBarberName, f)
      existing == getByPhoneNumber(found.w, formattedPhone, f)
      updatedClient ==
        createOrUpdate(existing.w,
                       [phone_number |-> formattedPhone, name |-> r.clientName.val,
                        preferred_barber_id |-> found.data[1].id], f)
  IN IF ~Truthy(r.clientName) \/ r.clientPhone = <<>> \/ r.preferredBarberName = <<>>
       THEN [w |-> w, resp |-> ClientAnswer(400)]
     ELSE IF formattedPhone = <<>>
       THEN [w |-> w, resp |-> ClientAnswer(400)]
     ELSE IF found.data = <<>>
       THEN [w |-> found.w, resp |-> ClientAnswer(404)]
     ELSE IF updatedClient.data = <<>>
       THEN [w |-> updatedClient.w, resp |-> ClientAnswer(500)]
     ELSE [w |-> updatedClient.w, resp |-> ClientAnswer(200)]

\* a row of the clients table written without a name (null)
UnnamedClient == [name |-> <<>>, preferred_barber_id |-> 0,
                  conversation_history |-> <<>>]

\* router.post('/update-client-preference'): an upsert on phone_number
UpdateClientPreference(w, r, f) ==
  LET got == getByPhoneNumber(w, r.clientPhone, f)
      old == IF r.clientPhone \in DOMAIN w.clients THEN w.clients[r.clientPhone]
                                                  ELSE UnnamedClient
      row == [old EXCEPT !.preferred_barber_id = r.preferredBarberId]
      put == [p \in DOMAIN w.clients \cup {r.clientPhone} |->
                IF p = r.clientPhone THEN row ELSE w.clients[p]]
  IN IF r.clientPhone = <<>> \/ r.preferredBarberId = 0
       THEN [w |-> w, resp |-> ClientAnswer(400)]
     ELSE IF f.clientWrite # "ok"
       THEN [w |-> Logged(got.w, "clients.upsert", 0, "error"),
             resp |-> ClientAnswer(500)]
     ELSE [w |-> [Logged(got.w, "clients.upsert", 0, "ok") EXCEPT !.clients = put],
           resp |-> ClientAnswer(200)]

\* the number of messages a conversation history keeps
HistoryLimit == 20

StrClient == <<"c","l","i","e","n","t">>
StrSystem == <<"s","y","s","t","e","m">>

\* conversationHistory.slice(-n)
SliceLast(list, n) ==
  IF Len(list) > n THEN SubSeq(list, Len(list) - n + 1, Len(list)) ELSE list

\* the history that is stored without being cut
Trimmed_Whole(list) == list

\* conversationHistory.slice(-20)
Trimmed(list) == SliceLast(list, HistoryLimit)

\* storeConversationMessage(clientPhone, sender, message): thrown when the
\* update or the insert fails
storeConversationMessage(w, clientPhone, sender, message, f) ==
  LET client == IF f.clients = "ok" THEN ClientRow(w, clientPhone) ELSE <<>>
      w1 == Logged(w, "clients.select", 0, Outcome(f.clients = "ok"))
      conversationHistory ==
        IF client # <<>> THEN client[1].conversation_history ELSE <<>>
      trimmedHistory ==
        Trimmed(Append(conversationHistory,
                       [sender |-> sender, message |-> message,
                        timestamp |-> w.now]))
      insertOk == f.clientWrite = "ok" /\ clientPhone \notin DOMAIN w.clients
      put(row) == [p \in DOMAIN w.clients \cup {clientPhone} |->
                     IF p = clientPhone THEN row ELSE w.clients[p]]
  IN IF client # <<>>
       THEN IF f.clientWrite = "ok"
              THEN [w |-> [Logged(w1, "clients.update", 0, "ok")
                             EXCEPT !.clients =
                               put([client[1] EXCEPT
                                      !.conversation_history = trimmedHistory])],
                    thrown |-> FALSE, history |-> trimmedHistory]
              ELSE [w |-> Logged(w1, "clients.update", 0, "error"),
                    thrown |-> TRUE, history |-> <<>>]
     ELSE IF insertOk
       THEN [w |-> [Logged(w1, "clients.insert", 0, "ok")
                      EXCEPT !.clients =
                        put([UnnamedClient EXCEPT
                               !.conversation_history = trimmedHistory])],
             thrown |-> FALSE, history |-> trimmedHistory]
     ELSE [w |-> Logged(w1, "clients.insert", 0, "error"),
           thrown |-> TRUE, history |-> <<>>]

\* router.post('/store-conversation'): message 0 stands for a missing one
StoreConversation(w, r, f) ==
  LET sender == IF r.sender.def THEN r.sender.val ELSE StrClient
      got == getByPhoneNumber(w, r.clientPhone, f)
      stored == storeConversationMessage(got.w, r.clientPhone, sender, r.message, f)
  IN IF r.clientPhone = <<>> \/ r.message = 0
       THEN [w |-> w, resp |-> ClientAnswer(400)]
     ELSE IF stored.thrown
       THEN [w |-> stored.w, resp |-> ClientAnswer(500)]
     ELSE [w |-> stored.w,
           resp |-> [ClientAnswer(200) EXCEPT !.conversationHistory = stored.history]]

\* the phone numbers the bodies carry: one number written in three ways, a
\* number that is too short and a missing one
Phone10 == <<"5","5","5","1","2","3","4","5","6","7">>
PhoneE164 == <<"+", "1">> \o Phone10
PhoneDashed == <<"5","5","5","-","1","2","3","-","4","5","6","7">>
PhoneShort == <<"5","5","5">>

RegisterRequests ==
  {[clientName |-> Text(NameJo), clientPhone |-> p, preferredBarberName |-> b] :
     p \in {Phone10, PhoneE164, PhoneDashed, PhoneShort, <<>>},
     b \in {<<"a","l","e","x">>, <<"A","l">>, <<"C","y">>}}

\* preferred barbers that exist (1), that do not (4), and none (0)
PreferenceRequests ==
  {[clientPhone |-> p, preferredBarberId |-> b] :
     p \in {Phone10, PhoneE164, <<>>}, b \in {0, 1, 4}}

ConversationRequests ==
  {[clientPhone |-> p, message |-> m, sender |-> Undefined] :
     p \in {Phone10, PhoneE164, <<>>}, m \in {0, 1}}

\* a client the store does not know books with barber 1 or with a barber
\* that does not exist
NewClientRequests ==
  {[NoReq EXCEPT !.clientPhone = Phone10, !.preferredBarberId = b,
                 !.startDateTime = Naive(Wall0900)] : b \in {1, 4}}

ClientFaults ==
  {AllOk, [AllOk EXCEPT !.clientWrite = "error"], [AllOk EXCEPT !.barbers = "error"],
   [AllOk EXCEPT !.clients = "error"]}

\* a request of POST /register-client is served
ServeRegisterClient ==
  /\ pc = "idle"
  /\ served < MaxRequests
  /\ \E r \in RegisterRequests, f \in ClientFaults :
       \E out \in {RegisterClient(World, r, f)} :
         /\ clients' = out.w.clients
         /\ input' = r
         /\ output' = out.resp
  /\ served' = served + 1
  /\ UNCHANGED <<events, rows, barbers, nextEventId, nextRowId, now, serverTz,
                 pc, req, resp, calls>>

\* a request of POST /update-client-preference is served
ServeUpdateClientPreference ==
  /\ pc = "idle"
  /\ served < MaxRequests
  /\ \E r \in PreferenceRequests, f \in ClientFaults :
       \E out \in {UpdateClientPreference(World, r, f)} :
         /\ clients' = out.w.clients
         /\ input' = r
         /\ output' = out.resp
  /\ served' = served + 1
  /\ UNCHANGED <<events, rows, barbers, nextEventId, nextRowId, now, serverTz,
                 pc, req, resp, calls>>

\* a request of POST /store-conversation is served
ServeStoreConversation ==
  /\ pc = "idle"
  /\ served < MaxRequests
  /\ \E r \in ConversationRequests, f \in ClientFaults :
       \E out \in {StoreConversation(World, r, f)} :
         /\ clients' = out.w.clients
         /\ input' = r
         /\ output' = out.resp
  /\ served' = served + 1
  /\ UNCHANGED <<events, rows, barbers, nextEventId, nextRowId, now, serverTz,
                 pc, req, resp, calls>>

\* a request of POST /client-appointment from a new client arrives
ReceiveNewClient ==
  /\ pc = "idle"
  /\ served < MaxRequests
  /\ \E r \in NewClientRequests : req' = r
  /\ pc' = "received"
  /\ served' = served + 1
  /\ UNCHANGED <<events, rows, clients, barbers, nextEventId, nextRowId, now,
                 serverTz, resp, calls, input, output>>

NextClients ==
  \/ ServeRegisterClient
  \/ ServeUpdateClientPreference
  \/ ServeStoreConversation
  \/ ReceiveNewClient
  \/ ClientAppointment
  \/ Deliver

SpecClients == Init /\ [][NextClients]_vars

(***************************************************************************)
(* Barber registration: POST /register and GET /auth/google/callback of    *)
(* two browser sessions.  Each call of the store is a step of its own, so  *)
(* the requests of the sessions interleave at the awaits of                *)
(* barberOps.updateOrCreate.  In this specification req holds, for each    *)
(* session, the session data and the request it has in flight.             *)
(***************************************************************************)
Sessions == {1, 2}

\* 'New Barber', the name of a barber inserted without one
StrNewBarber == <<"N","e","w"," ","B","a","r","b","e","r">>

\* what Google tells about the account: data.name and data.email
GoogleName == <<"B","o">>
GoogleEmail == "bo@mail"

\* the phone number POST /register keeps in the session
RegisterPhone(phoneNumber) ==
  IF Len(Digits(phoneNumber)) = 10 THEN <<"+", "1">> \o Digits(phoneNumber)
  ELSE <<"+">> \o Digits(phoneNumber)

\* a session that has not registered
NoSession == [pc |-> "start", route |-> "", phoneNumber |-> <<>>,
              barberName |-> <<>>, refreshToken |-> FALSE,
              existingBarber |-> <<>>]

\* the id the barbers table gives to the next row
NextBarberId(rowsOfBarbers) ==
  1 + CHOOSE m \in {b.id : b \in rowsOfBarbers} :
        \A b \in rowsOfBarbers : b.id <= m

\* the barberData the two routes hand to updateOrCreate
BarberData(s) ==
  IF s.route = "register"
    THEN [phone_number |-> s.phoneNumber, name |-> s.barberName,
          email |-> "", refresh_token |-> FALSE]
  ELSE [phone_number |-> s.phoneNumber,
        name |-> IF s.barberName # <<>> THEN s.barberName ELSE GoogleName,
        email |-> GoogleEmail, refresh_token |-> s.refreshToken]

\* the rows after the update of updateOrCreate: every row of the phone number
BarbersUpdated(rowsOfBarbers, d, existingBarber) ==
  {IF b.phone_number = d.phone_number
     THEN [b EXCEPT !.name = IF d.name # <<>> THEN d.name ELSE existingBarber.name,
                    !.email = IF d.email # "" THEN d.email ELSE existingBarber.email,
                    !.refresh_token = d.refresh_token \/ existingBarber.refresh_token,
                    !.selected_calendar_id = existingBarber.selected_calendar_id]
   ELSE b : b \in rowsOfBarbers}

\* the rows after the insert of updateOrCreate
BarbersInserted(rowsOfBarbers, d) ==
  rowsOfBarbers \cup
    {[id |-> NextBarberId(rowsOfBarbers),
      name |-> IF d.name # <<>> THEN d.name ELSE StrNewBarber,
      phone_number |-> d.phone_number, email |-> d.email,
      refresh_token |-> d.refresh_token, selected_calendar_id |-> "primary"]}

\* the phone numbers and names the registration form sends: one number
\* written in two ways, another number, and no number
RegisterPhones == {Phone10, PhoneDashed, PhoneShort, <<>>}
RegisterNames == {<<>>, StrAl}

\* a barber who registered with the short number before, linked an account
\* and selected the calendar 'shop'
LinkedBarber ==
  [Barber(2, TRUE, "shop") EXCEPT !.id = 4,
                                  !.phone_number = RegisterPhone(PhoneShort)]

BarbersInit ==
  /\ events = {}
  /\ rows = {}
  /\ clients = (PhoneA :> ClientJo)
  /\ barbers = {Barber(1, TRUE, ""), Barber(2, TRUE, "shop"), Barber(3, FALSE, ""),
                LinkedBarber}
  /\ nextEventId = 1
  /\ nextRowId = 1
  /\ now = 600
  /\ serverTz \in ServerZones
  /\ pc = "idle"
  /\ req = [s \in Sessions |-> NoSession]
  /\ resp = NoResp
  /\ calls = <<>>
  /\ served = 0
  /\ input = <<>>
  /\ output = <<>>

\* router.post('/register') up to the first call of the store: without a
\* phone number the error page is rendered and the session is left alone
RegisterPost(s) ==
  /\ req[s].pc \in {"start", "linked"}
  /\ served < MaxRequests
  /\ served' = served + 1
  /\ \E phoneNumber \in RegisterPhones, name \in RegisterNames :
       req' = [req EXCEPT ![s] =
                 IF phoneNumber = <<>> THEN @
                 ELSE [pc |-> "lookup", route |-> "register",
                       phoneNumber |-> RegisterPhone(phoneNumber),
                       barberName |-> name, refreshToken |-> @.refreshToken,
                       existingBarber |-> <<>>]]
  /\ UNCHANGED <<events, rows, clients, barbers, nextEventId, nextRowId, now,
                 serverTz, pc, resp, calls, input, output>>

\* router.get('/auth/google/callback') up to the first call of the store:
\* when the exchange of the code fails the error page is rendered; the
\* tokens of a successful exchange hold a refresh_token or none, and
\* req.session.refreshToken takes it
OAuthCallback(s) ==
  /\ req[s].pc = "authorizing"
  /\ \E exchanged \in BOOLEAN, refreshToken \in BOOLEAN :
       req' = [req EXCEPT ![s].pc = IF exchanged THEN "lookup" ELSE "start",
                          ![s].route = "callback",
                          ![s].refreshToken = IF exchanged THEN refreshToken ELSE @]
  /\ UNCHANGED <<events, rows, clients, barbers, nextEventId, nextRowId, now,
                 serverTz, pc, resp, calls, served, input, output>>

\* updateOrCreate: the answer of getByPhoneNumber arrives
BarberLookup(s) ==
  /\ req[s].pc = "lookup"
  /\ \E f \in {AllOk, [AllOk EXCEPT !.barbers = "error"]} :
       req' = [req EXCEPT
                 ![s].pc = "write",
                 ![s].existingBarber =
                   barberGetByPhoneNumber(World, req[s].phoneNumber, f).data]
  /\ UNCHANGED <<events, rows, clients, barbers, nextEventId, nextRowId, now,
                 serverTz, pc, resp, calls, served, input, output>>

\* updateOrCreate: the update or the insert, which the store may refuse,
\* and the rest of the route (the redirect)
BarberWrite(s) ==
  /\ req[s].pc = "write"
  /\ \E outcome \in {"ok", "error"} :
       barbers' =
         IF outcome # "ok" THEN barbers
         ELSE IF req[s].existingBarber # <<>>
           THEN BarbersUpdated(barbers, BarberData(req[s]), req[s].existingBarber[1])
         ELSE BarbersInserted(barbers, BarberData(req[s]))
  /\ req' = [req EXCEPT
               ![s].pc = IF req[s].route = "register" THEN "authorizing"
                         ELSE "linked"]
  /\ UNCHANGED <<events, rows, clients, nextEventId, nextRowId, now,
                 serverTz, pc, resp, calls, served, input, output>>

NextBarbers ==
  \E s \in Sessions :
    RegisterPost(s) \/ OAuthCallback(s) \/ BarberLookup(s) \/ BarberWrite(s)

SpecBarbers == BarbersInit /\ [][NextBarbers]_vars

(***************************************************************************)
(* POST /store-conversation on its own, for a client whose history is      *)
(* about to fill.  The messages of a client are numbered in the order in   *)
(* which they are sent; in this specification output holds, for each       *)
(* phone number, the messages the route has answered 200 for.              *)
(***************************************************************************)
ConversationPhones == {PhoneA, PhoneB}

\* the number of messages client Jo has stored at the start: none, or a
\* history one short of the limit, or a full one
StartLengths == {0, HistoryLimit - 1, HistoryLimit}

\* the history after the first n messages of a client were stored, n being
\* at most the limit
StoredHistory(n) ==
  [i \in 1..n |-> [sender |-> StrClient, message |-> i, timestamp |-> 600]]

ConversationFaults ==
  {AllOk, [AllOk EXCEPT !.clients = "error"], [AllOk EXCEPT !.clientWrite = "error"]}

ConversationInit ==
  /\ events = {}
  /\ rows = {}
  /\ \E n \in StartLengths :
       /\ clients = (PhoneA :> [ClientJo EXCEPT
                                  !.conversation_history = StoredHistory(n)])
       /\ output = [p \in ConversationPhones |->
                      IF p = PhoneA THEN StoredHistory(n) ELSE <<>>]
  /\ barbers = {Barber(1, TRUE, ""), Barber(2, TRUE, "shop"), Barber(3, FALSE, "")}
  /\ nextEventId = 1
  /\ nextRowId = 1
  /\ now = 600
  /\ serverTz \in ServerZones
  /\ pc = "idle"
  /\ req = NoReq
  /\ resp = NoResp
  /\ calls = <<>>
  /\ served = 0
  /\ input = <<>>

\* a request of POST /store-conversation is served: the next message of a
\* client, from the client or from the system, or a body without message
StoreMessage ==
  /\ pc = "idle"
  /\ served < MaxRequests
  /\ \E p \in ConversationPhones, s \in {Undefined, Text(StrSystem)},
        present \in BOOLEAN, f \in ConversationFaults :
       \E r \in {[clientPhone |-> p, sender |-> s,
                  message |-> IF present THEN Len(output[p]) + 1 ELSE 0]} :
         \E out \in {StoreConversation(World, r, f)} :
           /\ clients' = out.w.clients
           /\ input' = r
           /\ resp' = out.resp
           /\ output' =
                IF out.resp.status = 200
                  THEN [output EXCEPT ![p] =
                          Append(@, [sender |-> IF s.def THEN s.val ELSE StrClient,
                                     message |-> r.message, timestamp |-> now])]
                ELSE output
  /\ served' = served + 1
  /\ UNCHANGED <<events, rows, barbers, nextEventId, nextRowId, now, serverTz,
                 pc, req, calls>>

SpecConversation == ConversationInit /\ [][StoreMessage]_vars

(***************************************************************************)
(* The Slot Finder behind POST /find-available-slots, applied on its own.  *)
(* Times are small integers; input holds the arguments and output the      *)
(* slots returned.                                                         *)
(***************************************************************************)
\* the largest number of slots asked for
MaxSlots == 3

\* the longest distance from the search start to the search horizon
MaxHorizon == 8

\* overlaps(other) of the Interval Model: half-open, back-to-back intervals
\* do not overlap
IntervalsOverlap(a, b) == a.start < b.end /\ b.start < a.end

\* a test that misses the busy intervals that began before the candidate
IsFree_FromStartOnly(candidate, busyIntervals) ==
  \A b \in busyIntervals :
    ~(candidate.start <= b.start /\ b.start < candidate.end)

\* the candidate overlaps none of the busy intervals
IsFree(candidate, busyIntervals) ==
  \A b \in busyIntervals : ~IntervalsOverlap(candidate, b)

RECURSIVE WalkSlots(_, _, _, _, _, _)
\* the walk of the cursor: stop when count slots are found or the cursor has
\* passed the horizon; accept a free candidate and move to its end, else
\* move on by one slot duration
WalkSlots(busyIntervals, cursor, slotDuration, count, searchHorizon, found) ==
  IF Len(found) >= count \/ cursor > searchHorizon THEN found
  ELSE LET candidate == [start |-> cursor, end |-> cursor + slotDuration]
       IN IF IsFree(candidate, busyIntervals)
            THEN WalkSlots(busyIntervals, candidate.end, slotDuration, count,
                           searchHorizon, Append(found, candidate))
          ELSE WalkSlots(busyIntervals, cursor + slotDuration, slotDuration,
                         count, searchHorizon, found)

findSlots(busyIntervals, searchStart, slotDuration, count, searchHorizon) ==
  WalkSlots(busyIntervals, searchStart, slotDuration, count, searchHorizon, <<>>)

\* busy intervals of a calendar: unsorted, two of them overlapping each other
SlotBusyIntervals ==
  {[start |-> 1, end |-> 2], [start |-> 2, end |-> 5],
   [start |-> 4, end |-> 6], [start |-> 7, end |-> 8]}

SlotInputs ==
  {[busyIntervals |-> b, searchStart |-> s, slotDuration |-> d, count |-> c,
    searchHorizon |-> s + h] :
     b \in SUBSET SlotBusyIntervals, s \in {0, 1}, d \in {1, 2, 3},
     c \in 0..MaxSlots, h \in 0..MaxHorizon}

SlotsInit ==
  /\ events = {}
  /\ rows = {}
  /\ clients = (PhoneA :> ClientJo)
  /\ barbers = {Barber(1, TRUE, ""), Barber(2, TRUE, "shop"), Barber(3, FALSE, "")}
  /\ nextEventId = 1
  /\ nextRowId = 1
  /\ now = 600
  /\ serverTz \in ServerZones
  /\ pc = "idle"
  /\ req = NoReq
  /\ resp = NoResp
  /\ calls = <<>>
  /\ served = 0
  /\ input \in SlotInputs
  /\ output = <<>>

\* findSlots is applied to the arguments
FindSlots ==
  /\ pc = "idle"
  /\ output' = findSlots(input.busyIntervals, input.searchStart,
                         input.slotDuration, input.count, input.searchHorizon)
  /\ pc' = "found"
  /\ UNCHANGED <<events, rows, clients, barbers, nextEventId, nextRowId, now,
                 serverTz, req, resp, calls, served, input>>

SpecSlots == SlotsInit /\ [][FindSlots]_vars

(***************************************************************************)
(* Two requests of POST /store-conversation in flight at once.  The select *)
(* and the write of storeConversationMessage are two awaits, so each is a  *)
(* step of its own and the steps of the two requests interleave.  In this  *)
(* specification req holds, for each request, its body, the row it has     *)
(* read and its answer; input holds the length of Jo's history at the      *)
(* start.                                                                  *)
(***************************************************************************)
Writers == {1, 2}

\* the length of Jo's stored history at the start: none, or two short of
\* the limit, or a full one
RaceStartLengths == {0, HistoryLimit - 2, HistoryLimit}

NoWriter == [pc |-> "start", clientPhone |-> <<>>, sender |-> StrClient,
             message |-> 0, client |-> <<>>, status |-> 0]

\* const { data: client } = await supabase.from('clients')
\*   .select('conversation_history').eq('phone_number', clientPhone).single():
\* the error is not looked at, so a failed select reads as no client
SelectConversation(table, clientPhone, outcome) ==
  IF outcome = "ok" /\ clientPhone \in DOMAIN table
    THEN <<[conversation_history |-> table[clientPhone].conversation_history]>>
  ELSE <<>>

\* the history storeConversationMessage writes: the one it read, the new
\* message pushed, cut to the last twenty
PushedHistory(client, sender, message, timestamp) ==
  Trimmed(Append(IF client # <<>> THEN client[1].conversation_history ELSE <<>>,
                 [sender |-> sender, message |-> message,
                  timestamp |-> timestamp]))

\* the clients table after the update (of the row of the phone number, if
\* there is one) or the insert (refused for a phone number that has a row)
\* of storeConversationMessage; refused |-> TRUE is the error it throws
WriteConversation(table, clientPhone, client, trimmedHistory, outcome) ==
  IF outcome # "ok" THEN [table |-> table, refused |-> TRUE]
  ELSE IF client # <<>>
    THEN [table |-> [p \in DOMAIN table |->
                       IF p = clientPhone
                         THEN [table[p] EXCEPT !.conversation_history = trimmedHistory]
                       ELSE table[p]],
          refused |-> FALSE]
  ELSE IF clientPhone \in DOMAIN table THEN [table |-> table, refused |-> TRUE]
  ELSE [table |-> [p \in DOMAIN table \cup {clientPhone} |->
                     IF p = clientPhone
                       THEN [UnnamedClient EXCEPT !.conversation_history = trimmedHistory]
                     ELSE table[p]],
        refused |-> FALSE]

RaceInit ==
  /\ events = {}
  /\ rows = {}
  /\ input \in RaceStartLengths
  /\ clients = (PhoneA :> [ClientJo EXCEPT
                             !.conversation_history = StoredHistory(input)])
  /\ barbers = {Barber(1, TRUE, ""), Barber(2, TRUE, "shop"), Barber(3, FALSE, "")}
  /\ nextEventId = 1
  /\ nextRowId = 1
  /\ now = 600
  /\ serverTz \in ServerZones
  /\ pc = "idle"
  /\ req = [k \in Writers |-> NoWriter]
  /\ resp = NoResp
  /\ calls = <<>>
  /\ served = 0
  /\ output = <<>>

\* router.post('/store-conversation') up to the select of
\* storeConversationMessage: request k carries message HistoryLimit + k
StoreReceive(k) ==
  /\ req[k].pc = "start"
  /\ \E p \in ConversationPhones, s \in {StrClient, StrSystem} :
       req' = [req EXCEPT ![k] = [NoWriter EXCEPT !.pc = "select",
                                                  !.clientPhone = p,
                                                  !.sender = s,
                                                  !.message = HistoryLimit + k]]
  /\ UNCHANGED <<events, rows, clients, barbers, nextEventId, nextRowId, now,
                 serverTz, pc, resp, calls, served, input, output>>

\* storeConversationMessage: the answer of the select arrives
StoreSelect(k) ==
  /\ req[k].pc = "select"
  /\ \E outcome \in {"ok", "error"} :
       req' = [req EXCEPT
                 ![k].pc = "write",
                 ![k].client = SelectConversation(clients, req[k].clientPhone, outcome)]
  /\ UNCHANGED <<events, rows, clients, barbers, nextEventId, nextRowId, now,
                 serverTz, pc, resp, calls, served, input, output>>

\* storeConversationMessage: the update or the insert, and the answer of the
\* route (200, or 500 when the write was refused)
StoreWrite(k) ==
  /\ req[k].pc = "write"
  /\ \E outcome \in {"ok", "error"} :
       \E out \in {WriteConversation(clients, req[k].clientPhone, req[k].client,
                     PushedHistory(req[k].client, req[k].sender, req[k].message, now),
                     outcome)} :
         /\ clients' = out.table
         /\ req' = [req EXCEPT ![k].pc = "done",
                               ![k].status = IF out.refused THEN 500 ELSE 200]
  /\ UNCHANGED <<events, rows, barbers, nextEventId, nextRowId, now,
                 serverTz, pc, resp, calls, served, input, output>>

NextStoreRace ==
  \E k \in Writers : StoreReceive(k) \/ StoreSelect(k) \/ StoreWrite(k)

SpecStoreRace == RaceInit /\ [][NextStoreRace]_vars

(***************************************************************************)
(* A Reschedule and a Cancel of POST /client-appointment in flight at once *)
(* for the same event of client Jo, both naming it by eventId.  Every      *)
(* call of the gateway and of the appointments table is an await, hence a  *)
(* step of its own, and the steps of the two handlers interleave.  The     *)
(* lookups of the route (client, barber) read what neither request writes  *)
(* and belong to the first step.  In this specification req holds, for     *)
(* each of the two requests, where it stands and what it has read; input   *)
(* holds the number of appointments Jo has at the start.  No call fails on *)
(* its own account: the gateway answers 404 for an event that is gone.     *)
(***************************************************************************)
RaceCalendar == CalendarOf(Barber(1, TRUE, ""))

\* the event both requests name: Jo's first appointment
RaceEventId == 1

\* the world after one more Create of Jo with barber 1 has been served
Booked(w, startDateTime) ==
  handleCreateClientAppointment(w, RaceCalendar,
    [clientPhone |-> PhoneA, clientName |-> Text(NameJo),
     serviceType |-> StrAppointment, startDateTime |-> startDateTime,
     duration |-> DefaultDuration, notes |-> <<>>, barberId |-> 1],
    ResObject, AllOk).w

\* the calendar and the table after Jo's first n Creates, served on a
\* server in UTC
Bookings(n) ==
  LET w0 == [events |-> {}, rows |-> {}, clients |-> (PhoneA :> ClientJo),
             barbers |-> {}, nextEventId |-> 1, nextRowId |-> 1, now |-> 600,
             serverTz |-> 0, calls |-> <<>>]
      w1 == Booked(w0, Naive(Wall0900))
  IN IF n = 1 THEN w1 ELSE Booked(w1, Offset(Wall0900Day2, OffsetPDT))

\* the new start the Reschedule asks for, and the old start it may carry
\* as a number
RaceNewStart == Offset(Wall1400, OffsetPDT)
RaceOldStarts == {NoTs, Number(Wall0900)}

NoTask == [pc |-> "start", startDateTime |-> NoTs, existingEvent |-> <<>>,
           clientAppointments |-> <<>>, status |-> 0]

CancelRaceInit ==
  /\ input \in {1, 2}
  /\ events = Bookings(input).events
  /\ rows = Bookings(input).rows
  /\ nextEventId = Bookings(input).nextEventId
  /\ nextRowId = Bookings(input).nextRowId
  /\ clients = (PhoneA :> ClientJo)
  /\ barbers = {Barber(1, TRUE, ""), Barber(2, TRUE, "shop"), Barber(3, FALSE, "")}
  /\ now = 600
  /\ serverTz \in ServerZones
  /\ pc = "idle"
  /\ req = [reschedule |-> NoTask, cancel |-> NoTask]
  /\ resp = NoResp
  /\ calls = <<>>
  /\ served = 0
  /\ output = <<>>

\* the start and the end the Reschedule writes
RaceStartTime == parsePacificDateTime(RaceNewStart, serverTz).t
RaceEndTime == RaceStartTime + CoerceDuration(DurationAbsent)

\* handleRescheduleClientAppointment: await calendar.events.get; a 404
\* leads to the Create instead
RescheduleGet ==
  /\ req.reschedule.pc = "start"
  /\ \E s \in RaceOldStarts :
       \E got \in {EventsGet(World, RaceCalendar, RaceEventId, AllOk)} :
         /\ req' = [req EXCEPT !.reschedule =
                      [@ EXCEPT !.pc = IF got.status = 404 THEN "create"
                                                           ELSE "update",
                                !.startDateTime = s,
                                !.existingEvent = got.found]]
         /\ calls' = calls \o got.w.calls
  /\ UNCHANGED <<events, rows, clients, barbers, nextEventId, nextRowId, now,
                 serverTz, pc, resp, served, input, output>>

\* handleRescheduleClientAppointment: "create a new appointment instead";
\* the insert and the row insert of handleCreateClientAppointment touch a
\* new event and a new row only
RescheduleCreateInstead ==
  /\ req.reschedule.pc = "create"
  /\ \E out \in {handleCreateClientAppointment(World, RaceCalendar,
                   CreateInsteadData(PhoneA, Text(NameJo), RaceNewStart,
                                     CoerceDuration(DurationAbsent)),
                   ResObject, AllOk)} :
       /\ events' = out.w.events
       /\ rows' = out.w.rows
       /\ nextEventId' = out.w.nextEventId
       /\ nextRowId' = out.w.nextRowId
       /\ calls' = calls \o out.w.calls
       /\ req' = [req EXCEPT !.reschedule.pc = "done",
                             !.reschedule.status = Answer(out).status]
  /\ UNCHANGED <<clients, barbers, now, serverTz, pc, resp, served, input,
                 output>>

\* handleRescheduleClientAppointment: await calendar.events.update with the
\* resource read before; the gateway refuses an event that is gone and the
\* error is answered with 500
RescheduleUpdate ==
  /\ req.reschedule.pc = "update"
  /\ LET hit == {e \in events : e.cal = RaceCalendar /\ e.id = RaceEventId}
     IN IF hit = {}
          THEN /\ events' = events
               /\ calls' = Append(calls, Call("events.update", RaceEventId, "notfound"))
               /\ req' = [req EXCEPT !.reschedule.pc = "done",
                                     !.reschedule.status = 500]
        ELSE /\ events' = (events \ hit)
                            \cup {UpdatedEvent(req.reschedule.existingEvent[1],
                                               RaceStartTime, RaceEndTime)}
             /\ calls' = Append(calls, Call("events.update", RaceEventId, "ok"))
             /\ req' = [req EXCEPT !.reschedule.pc = "rowUpdate"]
  /\ UNCHANGED <<rows, clients, barbers, nextEventId, nextRowId, now,
                 serverTz, pc, resp, served, input, output>>

\* handleRescheduleClientAppointment: await appointmentOps.updateByEventId
RescheduleRowUpdate ==
  /\ req.reschedule.pc = "rowUpdate"
  /\ \E first \in {updateByEventId(World, RaceEventId,
                     [start_time |-> RaceStartTime, end_time |-> RaceEndTime],
                     AllOk)} :
       /\ rows' = first.w.rows
       /\ calls' = calls \o first.w.calls
       /\ req' = IF first.success
                   THEN [req EXCEPT !.reschedule.pc = "done",
                                    !.reschedule.status = 200]
                 ELSE [req EXCEPT !.reschedule.pc = "rowSelect"]
  /\ UNCHANGED <<events, clients, barbers, nextEventId, nextRowId, now,
                 serverTz, pc, resp, served, input, output>>

\* handleRescheduleClientAppointment: await appointmentOps.findByClientPhone,
\* within a day of the old start when the body carries one
RescheduleRowSelect ==
  /\ req.reschedule.pc = "rowSelect"
  /\ \E f \in {AllOk, [AllOk EXCEPT !.order = "desc"]} :
       \E sel \in {findByClientPhone(World, PhoneA,
                     [startAfter |->
                        IF TsTruthy(req.reschedule.startDateTime)
                          THEN <<req.reschedule.startDateTime.wall - DayMinutes>>
                          ELSE <<>>,
                      startBefore |->
                        IF TsTruthy(req.reschedule.startDateTime)
                          THEN <<req.reschedule.startDateTime.wall + DayMinutes>>
                          ELSE <<>>], f)} :
         /\ calls' = calls \o sel.w.calls
         /\ req' = IF Len(sel.data) = 0
                     THEN [req EXCEPT !.reschedule.pc = "done",
                                      !.reschedule.status = 200]
                   ELSE [req EXCEPT !.reschedule.pc = "rowFix",
                                    !.reschedule.clientAppointments = sel.data]
  /\ UNCHANGED <<events, rows, clients, barbers, nextEventId, nextRowId, now,
                 serverTz, pc, resp, served, input, output>>

\* handleRescheduleClientAppointment: the row picked from the rows read and
\* await supabase.from('appointments').update({start_time, end_time,
\* google_calendar_event_id: eventId}).eq('id', appointmentToUpdate.id)
RescheduleRowFix ==
  /\ req.reschedule.pc = "rowFix"
  /\ LET clientAppointments == req.reschedule.clientAppointments
         appointmentToUpdate ==
           IF TsTruthy(req.reschedule.startDateTime) /\ Len(clientAppointments) > 1
             THEN ReduceClosest(clientAppointments[1], Tail(clientAppointments),
                                NewDate(req.reschedule.startDateTime, serverTz).t)
             ELSE clientAppointments[1]
     IN /\ rows' = {IF r.id = appointmentToUpdate.id
                      THEN [r EXCEPT !.start_time = RaceStartTime,
                                     !.end_time = RaceEndTime,
                                     !.google_calendar_event_id = RaceEventId]
                      ELSE r : r \in rows}
        /\ calls' = Append(calls, Call("appointments.updateById",
                                       appointmentToUpdate.id, "ok"))
  /\ req' = [req EXCEPT !.reschedule.pc = "done", !.reschedule.status = 200]
  /\ UNCHANGED <<events, clients, barbers, nextEventId, nextRowId, now,
                 serverTz, pc, resp, served, input, output>>

\* handleCancelClientAppointment: await calendar.events.get; 404 when the
\* event is not there
CancelGet ==
  /\ req.cancel.pc = "start"
  /\ \E got \in {EventsGet(World, RaceCalendar, RaceEventId, AllOk)} :
       /\ req' = IF got.status = 404
                   THEN [req EXCEPT !.cancel.pc = "done",
                           !.cancel.status =
                             Answer(Send(NoArgument, World,
                                         ErrorBody(404, "event-not-found"))).status]
                 ELSE [req EXCEPT !.cancel.pc = "delete",
                                  !.cancel.existingEvent = got.found]
       /\ calls' = calls \o got.w.calls
  /\ UNCHANGED <<events, rows, clients, barbers, nextEventId, nextRowId, now,
                 serverTz, pc, resp, served, input, output>>

\* handleCancelClientAppointment: await calendar.events.delete
CancelDelete ==
  /\ req.cancel.pc = "delete"
  /\ events' = {e \in events : ~(e.cal = RaceCalendar /\ e.id = RaceEventId)}
  /\ calls' = Append(calls, Call("events.delete", RaceEventId, "ok"))
  /\ req' = [req EXCEPT !.cancel.pc = "rowDelete"]
  /\ UNCHANGED <<rows, clients, barbers, nextEventId, nextRowId, now,
                 serverTz, pc, resp, served, input, output>>

\* handleCancelClientAppointment: await the delete of the rows of the event
\* id, and the answer (sent through the parameter that got no argument)
CancelRowDelete ==
  /\ req.cancel.pc = "rowDelete"
  /\ \E w2 \in {DeleteAppointmentRows(World, RaceEventId, AllOk)} :
       /\ rows' = w2.rows
       /\ calls' = calls \o w2.calls
       /\ req' = [req EXCEPT
                    !.cancel.pc = "done",
                    !.cancel.status =
                      Answer(Send(NoArgument, w2,
                                  [NoResp EXCEPT !.status = 200])).status]
  /\ UNCHANGED <<events, clients, barbers, nextEventId, nextRowId, now,
                 serverTz, pc, resp, served, input, output>>

NextCancelRace ==
  \/ RescheduleGet
  \/ RescheduleCreateInstead
  \/ RescheduleUpdate
  \/ RescheduleRowUpdate
  \/ RescheduleRowSelect
  \/ RescheduleRowFix
  \/ CancelGet
  \/ CancelDelete
  \/ CancelRowDelete

SpecCancelRace == CancelRaceInit /\ [][NextCancelRace]_vars

(***************************************************************************)
(* The Conversation Aggregator in its polling variant.  The inbound        *)
(* messages of a phone number are buffered in its session in the order in  *)
(* which they are stored, each with the time of its storing; a caller asks *)
(* for a stored message and a time window whether the message is the final *)
(* one of its burst.  In this specification output holds the session       *)
(* messages of each phone number, now is the clock, and req holds the last *)
(* question and its answer.                                                *)
(***************************************************************************)
\* the most messages the sessions buffer, and the ticks the clock makes
MaxBurst == 3
MaxClock == 3

\* the time windows a caller gives
Windows == {1, 2}

\* the texts of the inbound messages
BurstTexts == {<<"h","i">>, <<"a","t"," ","9">>}

\* the newer messages with the message itself counted among them
NewerCountsItself(messages, i, timeWindow) ==
  {j \in DOMAIN messages :
     /\ j >= i
     /\ messages[j].created_at - messages[i].created_at <= timeWindow}

\* the messages of the session after position i that were stored within
\* the window of message i
NewerInWindow(messages, i, timeWindow) ==
  {j \in DOMAIN messages :
     /\ j > i
     /\ messages[j].created_at - messages[i].created_at <= timeWindow}

RECURSIVE CollectBurst(_, _, _, _)
\* the burst that ends with message i, collected backwards: a message
\* belongs to it while the next one followed it within the window
CollectBurst(messages, i, timeWindow, collected) ==
  IF i > 1 /\ messages[i].created_at - messages[i - 1].created_at <= timeWindow
    THEN CollectBurst(messages, i - 1, timeWindow,
                      messages[i - 1].content \o collected)
  ELSE collected

\* the answer of the aggregator for message i of a session
checkFinal(messages, i, timeWindow) ==
  IF NewerInWindow(messages, i, timeWindow) # {}
    THEN [isFinal |-> FALSE, utterance |-> <<>>]
  ELSE [isFinal |-> TRUE,
        utterance |-> CollectBurst(messages, i, timeWindow, messages[i].content)]

NoQuestion == [clientPhone |-> <<>>, index |-> 0, timeWindow |-> 0,
               isFinal |-> FALSE, utterance |-> <<>>]

AggregatorInit ==
  /\ events = {}
  /\ rows = {}
  /\ clients = (PhoneA :> ClientJo)
  /\ barbers = {Barber(1, TRUE, ""), Barber(2, TRUE, "shop"), Barber(3, FALSE, "")}
  /\ nextEventId = 1
  /\ nextRowId = 1
  /\ now = 0
  /\ serverTz \in ServerZones
  /\ pc = "idle"
  /\ req = NoQuestion
  /\ resp = NoResp
  /\ calls = <<>>
  /\ served = 0
  /\ input = <<>>
  /\ output = [p \in ConversationPhones |-> <<>>]

\* an inbound message is buffered in the session of its phone number
BufferMessage ==
  /\ \E p \in ConversationPhones, text \in BurstTexts :
       /\ Len(output[PhoneA]) + Len(output[PhoneB]) < MaxBurst
       /\ output' = [output EXCEPT ![p] =
                       Append(@, [content |-> text, created_at |-> now])]
  /\ pc' = "idle"
  /\ req' = NoQuestion
  /\ UNCHANGED <<events, rows, clients, barbers, nextEventId, nextRowId, now,
                 serverTz, resp, calls, served, input>>

\* time passes
ClockTick ==
  /\ now < MaxClock
  /\ now' = now + 1
  /\ pc' = "idle"
  /\ req' = NoQuestion
  /\ UNCHANGED <<events, rows, clients, barbers, nextEventId, nextRowId,
                 serverTz, resp, calls, served, input, output>>

\* a caller asks whether a stored message is the final one of its burst
PollFinal ==
  /\ \E p \in ConversationPhones, timeWindow \in Windows :
       \E i \in DOMAIN output[p] :
         \E answer \in {checkFinal(output[p], i, timeWindow)} :
           req' = [clientPhone |-> p, index |-> i, timeWindow |-> timeWindow,
                   isFinal |-> answer.isFinal, utterance |-> answer.utterance]
  /\ pc' = "polled"
  /\ UNCHANGED <<events, rows, clients, barbers, nextEventId, nextRowId, now,
                 serverTz, resp, calls, served, input, output>>

NextAggregator == BufferMessage \/ ClockTick \/ PollFinal

SpecAggregator == AggregatorInit /\ [][NextAggregator]_vars

(***************************************************************************)
(* Properties.                                                             *)
(***************************************************************************)
\* the step in which the route serves the request
Served == pc = "received" /\ pc' = "done"

\* no collaborator call in the log failed
NoFailure(cs) == \A i \in DOMAIN cs : cs[i].out # "error"

\* a call of the given kind with the given outcome is in the log
Issued(cs, op, out) == \E i \in DOMAIN cs : cs[i].op = op /\ cs[i].out = out

\* the duration a body asks for, in minutes
RequestedMinutes(r) == IF r.duration.typ = "absent" THEN 30 ELSE r.duration.n

\* the barber a body resolves to
RequestedBarber(r) ==
  IF r.preferredBarberId # 0 THEN r.preferredBarberId
  ELSE clients[r.clientPhone].preferred_barber_id

\* C1: after a Create with start S and duration D that succeeds while the
\* Record Store works, exactly one new remote event [S, S + D) exists on
\* the resolved barber's calendar and exactly one new Appointment row
\* exists, carrying that event's id, the same start and end, the client's
\* phone and the barber's id.
C1_CreateAddsOneEventAndOneRow ==
  [][(Served /\ req \in CreateRequests /\ resp'.success /\ NoFailure(calls'))
       => LET S == NewDate(req.startDateTime, serverTz).t
              D == RequestedMinutes(req)
              b == RequestedBarber(req)
          IN \E e \in events' :
               /\ e \notin events
               /\ events' = events \cup {e}
               /\ e.id = resp'.eventId
               /\ e.start = S /\ e.end = S + D
               /\ e.cal[1] = b
               /\ \E r \in rows' :
                    /\ r \notin rows
                    /\ rows' = rows \cup {r}
                    /\ r.google_calendar_event_id = e.id
                    /\ r.start_time = S /\ r.end_time = S + D
                    /\ r.client_phone = req.clientPhone
                    /\ r.barber_id = b]_vars

\* a Create with an explicit duration has succeeded and left its event and row
C1_Witness ==
  /\ pc = "done" /\ req \in CreateRequests /\ req.duration.typ # "absent"
  /\ resp.success /\ NoFailure(calls)
  /\ \E e \in events : e.id = resp.eventId /\ e.end = e.start + 45
       /\ \E r \in rows : r.google_calendar_event_id = e.id

\* C2: in a Create, once the gateway insert has succeeded, a Record Store
\* failure while persisting the row does not change the outcome: the
\* request reports success with the new event id and the event stays.
C2_CreateSurvivesStoreFailure ==
  [][(Served /\ req \in CreateRequests
        /\ Issued(calls', "events.insert", "ok")
        /\ Issued(calls', "appointments.insert", "error"))
       => /\ resp'.status = 200 /\ resp'.success /\ resp'.action = "create"
          /\ \E e \in events' \ events : e.id = resp'.eventId]_vars

\* a Create whose row could not be stored has reported success
C2_Witness ==
  /\ pc = "done" /\ req \in CreateRequests
  /\ Issued(calls, "appointments.insert", "error")
  /\ resp.success
  /\ \E e \in events : e.id = resp.eventId
  /\ ~ \E r \in rows : r.google_calendar_event_id = resp.eventId

\* C3: a Cancel that has deleted the remote event reports success (success
\* true, action 'cancel', the event id), also when the deletion of the
\* local row fails.
C3_CancelReportsSuccess ==
  [][(Served /\ req \in CancelRequests /\ Issued(calls', "events.delete", "ok"))
       => /\ resp'.status = 200 /\ resp'.success /\ resp'.action = "cancel"
          /\ \E i \in DOMAIN calls' :
               calls'[i] = Call("events.delete", resp'.eventId, "ok")]_vars

\* C4: after a Cancel of an existing event E whose gateway delete succeeded
\* while the Record Store worked, E is no longer on the calendar, no row
\* carries E's id, and the remote delete was issued before the local one.
C4_CancelRemovesEventThenRow ==
  [][(Served /\ req \in CancelRequests /\ NoFailure(calls'))
       => \A i \in DOMAIN calls' :
            (calls'[i].op = "events.delete" /\ calls'[i].out = "ok")
              => LET E == calls'[i].arg
                 IN /\ \E e \in events : e.id = E
                    /\ req.eventId # 0 => E = req.eventId
                    /\ ~ \E e \in events' : e.id = E
                    /\ ~ \E r \in rows' : r.google_calendar_event_id = E
                    /\ \E j \in DOMAIN calls' :
                         j > i /\ calls'[j] = Call("appointments.delete", E, "ok")
                    /\ ~ \E j \in DOMAIN calls' :
                         j < i /\ calls'[j].op = "appointments.delete"]_vars

\* a Cancel has deleted the event and then the row that had been stored
C4_Witness ==
  /\ pc = "done" /\ req \in CancelRequests
  /\ Issued(calls, "events.delete", "ok")
  /\ Issued(calls, "appointments.delete", "ok")
  /\ nextRowId > 1 /\ rows = {} /\ events = {}

\* the new start a Reschedule asks for: newStartDateTime || startDateTime
RequestedNewStart(r) ==
  IF TsTruthy(r.newStartDateTime) THEN r.newStartDateTime ELSE r.startDateTime

\* C5: a Reschedule that supplies no duration keeps the duration of the
\* original event: [s, e) moved to n becomes [n, n + (e - s)).
C5_ReschedulePreservesDuration ==
  [][(Served /\ req \in RescheduleRequests /\ req.duration.typ = "absent"
        /\ Issued(calls', "events.update", "ok"))
       => \E old \in events, new \in events' :
            /\ old.id = resp'.eventId /\ new.id = old.id
            /\ new.start = NewDate(RequestedNewStart(req), serverTz).t
            /\ new.end - new.start = old.end - old.start]_vars

\* the target of a Reschedule cannot be found: the gateway answered 404 for
\* the explicit id, or no listed event mentions the client name
TargetMissing ==
  \/ req.eventId # 0 /\ Issued(calls', "events.get", "notfound")
  \/ /\ req.eventId = 0 /\ Truthy(req.clientName)
     /\ Issued(calls', "events.list", "ok")
     /\ \A e \in events :
          /\ ~includes(toLowerCase(e.summary), toLowerCase(req.clientName.val))
          /\ ~includes(toLowerCase(e.description), toLowerCase(req.clientName.val))

C7_RescheduleUpdatesRow ==
  [][(Served /\ req \in RescheduleRequests /\ NoFailure(calls')
        /\ Issued(calls', "events.update", "ok"))
       => LET id == resp'.eventId
              new == CHOOSE e \in events' : e.id = id
              byId == {r \in rows : r.google_calendar_event_id = id}
              old == NewDate(req.startDateTime, serverTz).t
              near == {r \in rows : /\ r.client_phone = req.clientPhone
                                    /\ Abs(r.start_time - old) < DayMinutes}
          IN /\ byId # {}
               => rows' = (rows \ byId) \cup
                            {[r EXCEPT !.start_time = new.start,
                                       !.end_time = new.end] : r \in byId}
             /\ (byId = {} /\ TsTruthy(req.startDateTime) /\ near # {})
               => \E r \in near :
                    /\ \A q \in near : Abs(r.start_time - old) <= Abs(q.start_time - old)
                    /\ rows' = (rows \ {r}) \cup
                                 {[r EXCEPT !.start_time = new.start,
                                            !.end_time = new.end,
                                            !.google_calendar_event_id = id]}]_vars

\* C8: when the remote update of a Reschedule has succeeded, the request
\* reports success whatever happens in the Record Store, and
\* dbUpdateSuccess is true exactly when a row was updated to the new times
\* and false when none was.
C8_RescheduleFlagTellsRowUpdate ==
  [][(Served /\ req \in RescheduleRequests /\ Issued(calls', "events.update", "ok"))
       => LET id == resp'.eventId
              new == CHOOSE e \in events' : e.id = id
              rowUpdated ==
                \/ Issued(calls', "appointments.update", "ok")
                \/ Issued(calls', "appointments.updateById", "ok")
          IN /\ resp'.status = 200 /\ resp'.success /\ resp'.action = "reschedule"
             /\ resp'.dbUpdateSuccess \in {"true", "false"}
             /\ resp'.dbUpdateSuccess = "true" <=> rowUpdated
             /\ rowUpdated
                  => \E r \in rows' : /\ r.google_calendar_event_id = id
                                      /\ r.start_time = new.start
                                      /\ r.end_time = new.end
             /\ ~rowUpdated => rows' = rows]_vars

\* a Reschedule whose store update failed has reported success with the
\* flag false
C8_Witness ==
  /\ pc = "done" /\ req \in RescheduleRequests
  /\ Issued(calls, "events.update", "ok")
  /\ Issued(calls, "appointments.update", "error")
  /\ resp.success /\ resp.dbUpdateSuccess = "false"
  /\ \E r \in rows : r.google_calendar_event_id = resp.eventId

\* C9: a Reschedule of an existing event changes only that event's start
\* and end: its id, summary and description are unchanged, no other event
\* is changed, and the number of remote events stays the same.
C9_RescheduleChangesOnlyTimes ==
  [][(Served /\ req \in RescheduleRequests /\ Issued(calls', "events.update", "ok"))
       => \E old \in events, new \in events' :
            /\ old.id = resp'.eventId
            /\ new.id = old.id /\ new.cal = old.cal
            /\ new.summary = old.summary /\ new.description = old.description
            /\ events' \ {new} = events \ {old}
            /\ Cardinality(events') = Cardinality(events)]_vars

\* a Reschedule has moved one of two events to 14:00 PDT
C9_Witness ==
  /\ pc = "done" /\ req \in RescheduleRequests
  /\ resp.success /\ resp.action = "reschedule"
  /\ Cardinality(events) = 2
  /\ \E e \in events : e.id = resp.eventId /\ e.start = Wall1400 - OffsetPDT
  /\ \E e \in events : e.id # resp.eventId /\ e.start # Wall1400 - OffsetPDT

\* C10: repeating a Cancel with the explicit id of an event that was
\* already deleted is answered not-found (404), not with a server error,
\* and changes neither the calendar nor the Record Store.
C10_RepeatedCancelIsNotFound ==
  [][(Served /\ req \in CancelRequests /\ NoFailure(calls')
        /\ req.eventId # 0 /\ req.eventId < nextEventId
        /\ ~ \E e \in events : e.id = req.eventId
        /\ Issued(calls', "events.get", "notfound"))
       => /\ resp'.status = 404
          /\ events' = events
          /\ rows' = rows]_vars

\* the gateway calls that change a calendar
GatewayMutations == {"events.insert", "events.update", "events.delete"}

\* the store calls that change the appointments table
RowMutations == {"appointments.insert", "appointments.update",
                 "appointments.updateById", "appointments.delete"}

\* C11: when the gateway mutation of a Create, Reschedule or Cancel
\* (insert, update or delete) fails with an error other than not-found,
\* the request is answered with 500 and creates, updates or deletes no
\* local Appointment row (and no call that would is issued).
C11_GatewayFailureLeavesRows ==
  [][(Served /\ req \in Requests
        /\ \E op \in GatewayMutations : Issued(calls', op, "error"))
       => /\ resp'.status = 500 /\ ~resp'.success
          /\ rows' = rows
          /\ events' = events
          /\ \A i \in DOMAIN calls' : calls'[i].op \notin RowMutations]_vars

\* the gateway update of a Reschedule has failed while a row of the event
\* is stored, and the request was answered with 500
C11_Witness ==
  /\ pc = "done" /\ req \in RescheduleRequests
  /\ Issued(calls, "events.update", "error")
  /\ resp.status = 500
  /\ \E r \in rows : \E i \in DOMAIN calls :
       calls[i].op = "events.update" /\ calls[i].arg = r.google_calendar_event_id

\* the preferred barber stored for the phone number of a body (0: none)
StoredPreference(r) ==
  IF r.clientPhone \in DOMAIN clients
    THEN clients[r.clientPhone].preferred_barber_id ELSE 0

\* the barber a body resolves to holds a credential
BarberUsable(r) ==
  \E b \in barbers : /\ b.refresh_token
                     /\ b.id = IF r.preferredBarberId # 0 THEN r.preferredBarberId
                                ELSE StoredPreference(r)

\* the body of a Create or Reschedule carries no start date-time
StartMissing(r) ==
  /\ ~CoerceFlag(r.isCancelling)
  /\ IF CoerceFlag(r.isRescheduling)
       THEN r.newStartDateTime.form = "absent" /\ r.startDateTime.form = "absent"
       ELSE r.startDateTime.form = "absent"

\* C12: a request rejected as a validation error (no clientPhone; no
\* barber resolvable from preferredBarberId or the stored preference; no
\* start date-time) is answered with 400, one rejected as not-found (the
\* barber is absent or holds no credential) with 404, and neither issues a
\* gateway insert, update or delete.
C12_RejectionsPrecedeMutation ==
  [][(Served /\ req \in Requests)
       => LET noPhone == req.clientPhone = <<>>
              noBarber == req.preferredBarberId = 0 /\ StoredPreference(req) = 0
              rejected400 ==
                \/ noPhone
                \/ noBarber
                \/ NoFailure(calls') /\ BarberUsable(req) /\ StartMissing(req)
              rejected404 ==
                ~noPhone /\ ~noBarber /\ NoFailure(calls') /\ ~BarberUsable(req)
          IN /\ rejected400 => resp'.status = 400
             /\ rejected404 => resp'.status = 404
             /\ (rejected400 \/ rejected404)
                  => /\ \A i \in DOMAIN calls' : calls'[i].op \notin GatewayMutations
                     /\ events' = events /\ rows' = rows]_vars

\* a Create without a start date-time for a usable barber was answered 400
\* while an event was on the calendar
C12_Witness ==
  /\ pc = "done" /\ req \in CreateRequests
  /\ req.clientPhone # <<>> /\ req.startDateTime.form = "absent"
  /\ Issued(calls, "barbers.select", "ok")
  /\ resp.status = 400 /\ resp.error = "start-required"
  /\ events # {}

\* every local row refers to an existing remote event with the same start
\* and end, and every remote event has a local row
RowsMirrorEvents ==
  /\ \A r \in rows : \E e \in events : /\ e.id = r.google_calendar_event_id
                                       /\ e.start = r.start_time
                                       /\ e.end = r.end_time
  /\ \A e \in events : \E r \in rows : r.google_calendar_event_id = e.id

\* no Record Store call in the log failed
NoStoreFailure(cs) ==
  \A i \in DOMAIN cs : cs[i].out = "error" => cs[i].op \in
    {"events.list", "events.get", "events.insert", "events.update", "events.delete"}

\* C13: a create, reschedule or cancel request through POST
\* /client-appointment or POST /create-event that meets no Record Store
\* failure keeps the rows and the remote events in step: if before it every
\* row refers to an existing event with the same start and end and every
\* event has a row, the same holds after it.
C13_RowsFollowEvents ==
  [][(Served /\ NoStoreFailure(calls') /\ RowsMirrorEvents) => RowsMirrorEvents']_vars

\* what a flag of a body says: a boolean, or a string reading "true" in any
\* letter case
FlagSays(x) ==
  \/ x.typ = "boolean" /\ x.b
  \/ x.typ = "string" /\ Len(x.s) = 4 /\ toLowerCase(x.s) = <<"t","r","u","e">>

\* the kinds of gateway call issued while serving the request
OpsIssued(cs) == {cs[i].op : i \in DOMAIN cs}

\* C14: a request that gets past the resolution of the barber runs exactly
\* one path, chosen by the two flags (booleans, or strings read in any
\* letter case).  Cancel (isCancelling): the event is looked up and none is
\* inserted or updated.  Reschedule (isRescheduling, not isCancelling):
\* the event is looked up when a new start is given and none is deleted.
\* Create (neither): no event is looked up, updated or deleted.
C14_FlagsChooseOnePath ==
  [][(Served /\ req \in Requests /\ BarberUsable(req)
        /\ Issued(calls', "barbers.select", "ok"))
       => LET cancel == FlagSays(req.isCancelling)
              reschedule == ~cancel /\ FlagSays(req.isRescheduling)
              ops == OpsIssued(calls')
              lookedUp == ops \cap {"events.get", "events.list"} # {}
          IN /\ cancel
                  => /\ lookedUp
                     /\ ops \cap {"events.insert", "events.update"} = {}
                     /\ resp'.action \notin {"create", "reschedule"}
             /\ reschedule
                  => /\ ~StartMissing(req) => lookedUp
                     /\ "events.delete" \notin ops
                     /\ resp'.action # "cancel"
             /\ (~cancel /\ ~reschedule)
                  => /\ ~lookedUp
                     /\ ops \cap {"events.update", "events.delete"} = {}
                     /\ resp'.action \notin {"cancel", "reschedule"}]_vars

\* a body whose two flags are the strings "False" and "FALSE" was served as
\* a Create
C14_Witness ==
  /\ pc = "done" /\ req \in CreateRequests
  /\ req.isCancelling.typ = "string" /\ req.isRescheduling.typ = "string"
  /\ resp.success /\ resp.action = "create"
  /\ Issued(calls, "events.insert", "ok")

\* the events findEventByClientName lists for the barber's calendar (all
\* events of the model lie inside the listed window)
Listed == {e \in events : e.cal = ResolverCalendar}

\* the normalized query name: lower-cased and trimmed
QueryName == trim(toLowerCase(input.clientName))

\* the listed events whose summary or description, lower-cased, contains
\* the normalized query name
Matching ==
  {e \in Listed : \/ includes(toLowerCase(e.summary), QueryName)
                  \/ includes(toLowerCase(e.description), QueryName)}

\* the listed events whose summary or description as stored contains the
\* normalized query name
MatchingAsStored ==
  {e \in Listed : \/ includes(e.summary, QueryName)
                  \/ includes(e.description, QueryName)}

\* findEventByClientName returned (the listing did not fail)
Resolved == pc = "resolved" /\ ~output.thrown

\* the time between two instants
Distance(a, b) == IF a < b THEN b - a ELSE a - b

C16_SoonestUpcomingElseLatest ==
  (/\ Resolved
   /\ input.appointmentDate = <<>>
   /\ Cardinality(Matching) >= 2)
    => /\ output.found # <<>>
       /\ LET e == output.found[1]
              upcoming == {m \in Matching : m.start >= now}
          IN /\ e \in Matching
             /\ IF upcoming # {}
                  THEN e \in upcoming /\ \A o \in upcoming : e.start <= o.start
                  ELSE \A o \in Matching : e.start >= o.start

\* past and upcoming matches: the soonest upcoming one is returned
C16_Witness ==
  /\ Resolved
  /\ input.appointmentDate = <<>>
  /\ Cardinality(Matching) = 4
  /\ output.found # <<>>
  /\ output.found[1].start = 660

\* C17 as stated: findEventByClientName returns not-found exactly when no
\* listed event contains the lower-cased, trimmed query name as a substring
\* of its summary or description (as stored); any event it returns is one
\* of those matches; and when exactly one event matches it returns that
\* event whatever target date is supplied.
C17_NotFoundIffNoStoredMatch ==
  Resolved
    => /\ (output.found = <<>>) <=> (MatchingAsStored = {})
       /\ output.found # <<>> => output.found[1] \in MatchingAsStored
       /\ Cardinality(MatchingAsStored) = 1
            => output.found # <<>> /\ output.found[1] \in MatchingAsStored

\* C17, amended: the summary and the description are lower-cased before
\* the comparison.  findEventByClientName returns not-found exactly when no
\* listed event contains the lower-cased, trimmed query name as a substring
\* of its lower-cased summary or description; any event it returns is one
\* of those matches; and when exactly one event matches it returns that
\* event whatever target date is supplied.
C17_NotFoundIffNoMatch ==
  Resolved
    => /\ (output.found = <<>>) <=> (Matching = {})
       /\ output.found # <<>> => output.found[1] \in Matching
       /\ Cardinality(Matching) = 1 => output.found = <<CHOOSE e \in Matching : TRUE>>

\* one match, found through the upper-case summary, with a target date far
\* from it
C17_Witness ==
  /\ Resolved
  /\ Matching = {e \in ResolverEvents : e.id = 2}
  /\ input.appointmentDate = <<ValidDate(0)>>
  /\ output.found # <<>>
  /\ output.found[1].id = 2

\* the phone numbers clients book with
ClientPhones == {PhoneA, PhoneB}

\* the rows created for a client phone other than the requesting one
RowsOfOthers(r) ==
  {row \in rows : row.client_phone \in ClientPhones \ {r.clientPhone}}

\* C18: a request of POST /client-appointment without an event id never
\* deletes or modifies a local Appointment row that was created for a
\* different client phone, nor the remote event such a row refers to, and
\* every remote event it adds, changes or deletes is on the calendar of the
\* barber the request resolves to.
C18_RequestsStayInScope ==
  [][(Served /\ req \in Requests /\ req.eventId = 0)
       => /\ \A row \in RowsOfOthers(req) : row \in rows'
          /\ \A e \in events :
               (\E row \in RowsOfOthers(req) :
                  row.google_calendar_event_id = e.id) => e \in events'
          /\ \A e \in (events \ events') \cup (events' \ events) :
               e.cal[1] = RequestedBarber(req)]_vars

\* the offset of US Pacific time from UTC on the date of a wall-clock time:
\* days 0 and 1 are in daylight time (UTC-7), the days from day 2 on in
\* standard time (UTC-8)
PacificOffsetOn(wall) == IF wall < 2 * DayMinutes THEN 420 ELSE 480

\* C19: for a timestamp without offset, parsePacificDateTime yields the
\* instant obtained by reading it as US Pacific wall-clock time with the
\* offset in effect on the timestamp's own date, whatever the server's own
\* time zone is.
C19_NaiveIsPacificWallClock ==
  (pc = "parsed" /\ input.form = "naive")
    => /\ output.ok
       /\ output.t = input.wall + PacificOffsetOn(input.wall)

\* C20: every offset-qualified rendering of an instant (with Z, with a
\* positive or negative hh:mm offset, with or without fractional seconds)
\* is parsed by parsePacificDateTime to that instant in whole seconds.
C20_OffsetRenderingsAgree ==
  (pc = "parsed" /\ input.form \in {"offset", "zulu"})
    => /\ output.ok
       /\ output.t = input.wall - input.off
       /\ output.ms = 0

\* 09:00 UTC rendered at +05:30 with fractional seconds
C20_Witness ==
  /\ pc = "parsed"
  /\ input.form = "offset" /\ input.off = 330
  /\ input.wall = Wall0900 + 330
  /\ input.frac = <<"1","2","3">>
  /\ output.ok /\ output.t = Wall0900 /\ output.ms = 0


\* C21: a request whose date-time string matches neither the
\* offset-qualified nor the bare YYYY-MM-DDTHH:MM:SS pattern is answered
\* with 400, and no remote event is inserted or updated.
C21_MalformedTimestampIs400 ==
  [][(/\ Served
      /\ req \in CreateRequests
      /\ req.startDateTime.form = "malformed"
      /\ NoFailure(calls'))
       => resp'.status = 400 /\ events' = events]_vars

\* the instant a request timestamp denotes
InstantOf(ts) ==
  IF ts.form = "naive" THEN ts.wall + PacificOffsetOn(ts.wall)
  ELSE ts.wall - ts.off

\* the barber a body of POST /check-availability names
AvailabilityBarber(r) ==
  CHOOSE b \in barbers :
    IF r.barberPhoneNumber # <<>> THEN b.phone_number = r.barberPhoneNumber
    ELSE b.id = r.barberId

\* the events on that barber's calendar that overlap the requested window
\* under the half-open predicate
Overlapping(r) ==
  {e \in events : /\ e.cal = CalendarOf(AvailabilityBarber(r))
                  /\ InstantOf(r.startDateTime) < e.end
                  /\ e.start < InstantOf(r.endDateTime)}

\* the body names a barber that can be used and two date-time strings
AvailabilityAsked(r) ==
  /\ \/ r.barberPhoneNumber # <<>>
     \/ \E b \in barbers : b.id = r.barberId /\ b.refresh_token
  /\ r.startDateTime.form \in {"naive", "offset", "zulu"}
  /\ r.endDateTime.form \in {"naive", "offset", "zulu"}

\* C22: POST /check-availability answers with isAvailable = true exactly
\* when no event on the barber's calendar overlaps the requested window
\* [startDateTime, endDateTime) under the half-open predicate, and returns
\* the overlapping events otherwise.
C22_AvailableIffNoOverlap ==
  (/\ pc = "checked"
   /\ AvailabilityAsked(input)
   /\ NoFailure(calls))
    => /\ output.status = 200
       /\ (output.isAvailable = "true") <=> (Overlapping(input) = {})
       /\ {output.events[i] : i \in DOMAIN output.events}
            = {e.id : e \in Overlapping(input)}

\* C23: no two local Appointment rows carry the same remote calendar event
\* id, also after requests in which Record Store calls failed.
C23_EventIdsAreUnique ==
  \A r1 \in rows, r2 \in rows :
    r1.google_calendar_event_id = r2.google_calendar_event_id => r1 = r2

\* C24: every remote event and every local Appointment row written by
\* Create or Reschedule has its end strictly after its start, whatever
\* duration the body carried.
C24_EndAfterStart ==
  /\ \A e \in events : e.end > e.start
  /\ \A r \in rows : r.end_time > r.start_time

\* the E.164 form of a phone number of the US numbering plan: the digits,
\* with the country code 1 put in front of ten digits, after a "+"
E164(p) ==
  IF Len(Digits(p)) = 10 THEN <<"+", "1">> \o Digits(p) ELSE <<"+">> \o Digits(p)

\* C25: no two Client records denote the same phone number in
\* E.164-normalized form.
C25_OneClientPerPhone ==
  \A p \in DOMAIN clients, q \in DOMAIN clients : E164(p) = E164(q) => p = q

\* C26: every Client record's preferred-barber reference is either absent
\* or the id of an existing Barber.
C26_PreferredBarberExists ==
  \A p \in DOMAIN clients :
    \/ clients[p].preferred_barber_id = 0
    \/ \E b \in barbers : b.id = clients[p].preferred_barber_id

\* C27: after any sequence or interleaving of POST /register requests and
\* OAuth callbacks, no two rows of the barbers table carry the same phone
\* number
C27_OneBarberPerPhone ==
  \A a, b \in barbers : a.phone_number = b.phone_number => a = b

\* the history the store holds for a phone number (none for an unknown one)
HistoryOf(p) ==
  IF p \in DOMAIN clients THEN clients[p].conversation_history ELSE <<>>

\* C28: after any sequence of POST /store-conversation requests the stored
\* history of a client holds at most 20 messages, and they are the messages
\* stored last, in the order in which they were stored
C28_HistoryIsLastTwenty ==
  \A p \in ConversationPhones :
    LET h == HistoryOf(p)
        stored == output[p]
    IN /\ Len(h) <= 20
       /\ Len(h) = IF Len(stored) < 20 THEN Len(stored) ELSE 20
       /\ \A i \in 1..Len(h) : h[i] = stored[Len(stored) - Len(h) + i]

\* more than twenty messages of one client were stored, the last one on top
\* of a full history
C28_Witness ==
  /\ resp.status = 200
  /\ Len(output[input.clientPhone]) > 20
  /\ Len(HistoryOf(input.clientPhone)) = 20

\* the gateway mutations issued while serving the request, failed ones too
MutationsIssued == {i \in DOMAIN calls : calls[i].op \in GatewayMutations}

\* C29: a POST /client-appointment request ends with one response and has
\* issued at most one gateway mutation (insert, update or delete), whatever
\* the outcome of that call: nothing is retried
C29_OneResponseOneMutation ==
  pc = "done" => /\ resp.status # 0
                 /\ Cardinality(MutationsIssued) <= 1

\* the one mutation of a request failed and the request was answered 500
C29_Witness ==
  /\ pc = "done"
  /\ resp.status = 500
  /\ \E i \in MutationsIssued : calls[i].out = "error"

\* the k-th slot position counted from the search start
SlotAt(k) ==
  [start |-> input.searchStart + k * input.slotDuration,
   end |-> input.searchStart + (k + 1) * input.slotDuration]

\* the feasible slots within the horizon: the slot positions that begin at
\* or before the horizon and overlap no busy interval
FeasibleSlots ==
  {SlotAt(k) : k \in {n \in 0..(MaxHorizon + 1) :
     /\ SlotAt(n).start <= input.searchHorizon
     /\ \A b \in input.busyIntervals :
          ~(SlotAt(n).start < b.end /\ b.start < SlotAt(n).end)}}

\* C30: the Slot Finder returns no slot that overlaps a busy interval, it
\* returns min(count, number of feasible slots within the horizon) slots,
\* and they are the earliest feasible ones in ascending order
C30_SlotsFreeCountedAscending ==
  pc = "found" =>
    /\ \A i \in DOMAIN output : \A b \in input.busyIntervals :
         ~(output[i].start < b.end /\ b.start < output[i].end)
    /\ Len(output) = IF input.count < Cardinality(FeasibleSlots)
                       THEN input.count ELSE Cardinality(FeasibleSlots)
    /\ \A i \in DOMAIN output : output[i] \in FeasibleSlots
    /\ \A i, j \in DOMAIN output : i < j => output[i].end <= output[j].start
    /\ \A i \in DOMAIN output : \A s \in FeasibleSlots :
         s.start < output[i].start => \E j \in 1..(i - 1) : output[j] = s

\* two slots were asked for and found behind a busy stretch that made the
\* finder skip a position
C30_Witness ==
  /\ pc = "found"
  /\ input.count = 2
  /\ Len(output) = 2
  /\ output[1].start > input.searchStart
  /\ input.busyIntervals # {}

\* the calendar of the barber a body of POST /create-event names
EventCalendar(r) ==
  CalendarOf(CHOOSE b \in barbers : b.phone_number = r.phoneNumber)

\* C32: a reschedule through POST /create-event of an event that exists on
\* the barber's calendar, given by its id, with the gateway working, is
\* answered with success and leaves the event at the parsed new start with
\* the duration it had.
C32_CreateEventRescheduleMoves ==
  [][(/\ Served /\ req \in EventRescheduleRequests /\ NoFailure(calls')
      /\ \E e \in events : e.id = req.eventId /\ e.cal = EventCalendar(req))
       => /\ resp'.status = 200 /\ resp'.success
          /\ \A e \in events : (e.id = req.eventId /\ e.cal = EventCalendar(req))
               => \E n \in events' :
                    /\ n.id = e.id /\ n.cal = e.cal
                    /\ n.start = InstantOf(req.startDateTime)
                    /\ n.end - n.start = e.end - e.start]_vars

\* C33: a cancel through POST /create-event without event id is answered 400
\* when it carries no client name either; with a client name it is answered
\* 404 when no event of the calendar names the client, and otherwise the
\* event found is deleted from the calendar and success is reported.
C33_CreateEventCancelByName ==
  [][(/\ Served /\ req \in EventCancelRequests /\ req.eventId = 0
      /\ NoFailure(calls'))
       => IF ~req.clientName.def
            THEN resp'.status = 400 /\ events' = events
          ELSE IF \A e \in events :
                    e.cal = EventCalendar(req)
                      => /\ ~includes(toLowerCase(e.summary),
                                      toLowerCase(req.clientName.val))
                         /\ ~includes(toLowerCase(e.description),
                                      toLowerCase(req.clientName.val))
            THEN resp'.status = 404 /\ events' = events
          ELSE /\ resp'.status = 200
               /\ \E e \in events : /\ e.cal = EventCalendar(req)
                                    /\ events' = events \ {e}]_vars

\* C34: a Reschedule that has updated remote event E leaves every row alone
\* whose stored event id is the id of another event that is still on the
\* calendar: such a row is in the table unchanged afterwards.
C34_RescheduleSparesBoundRows ==
  [][(Served /\ req \in RescheduleRequests)
       => \A i \in DOMAIN calls' :
            (calls'[i].op = "events.update" /\ calls'[i].out = "ok")
              => \A r \in rows :
                   (/\ r.google_calendar_event_id # calls'[i].arg
                    /\ \E e \in events' : e.id = r.google_calendar_event_id)
                     => r \in rows']_vars

\* the body of a Create passes the route's validation: a phone, a barber
\* with a credential, a start the parser accepts
CreateAccepted(r) ==
  /\ r.clientPhone # <<>>
  /\ BarberUsable(r)
  /\ TsTruthy(r.startDateTime)
  /\ NewDate(r.startDateTime, serverTz).valid

\* the events on the resolved barber's calendar that overlap the interval a
\* Create asks for
CreateOverlaps(r) ==
  LET S == NewDate(r.startDateTime, serverTz).t
      D == RequestedMinutes(r)
  IN {e \in events : /\ e.cal[1] = RequestedBarber(r)
                     /\ e.start < S + D /\ S < e.end}

\* C36: Create performs no availability check: a Create whose interval
\* overlaps an event already on the barber's calendar is still inserted and
\* reported as success, so a retried identical Create adds a second remote
\* event and a second local Appointment row.
C36_CreateIgnoresOverlap ==
  [][(Served /\ req \in CreateRequests /\ CreateAccepted(req)
        /\ NoFailure(calls') /\ CreateOverlaps(req) # {})
       => /\ resp'.status = 200 /\ resp'.success /\ resp'.action = "create"
          /\ \E e \in events' \ events :
               /\ events' = events \cup {e}
               /\ e.id = resp'.eventId
               /\ \E o \in CreateOverlaps(req) :
                    o.cal = e.cal /\ o.start < e.end /\ e.start < o.end
          /\ \E r \in rows' \ rows :
               /\ rows' = rows \cup {r}
               /\ r.google_calendar_event_id = resp'.eventId]_vars

\* the same Create was served twice: two events with the same calendar,
\* summary, start and end, each with its own row of the same client
C36_Witness ==
  /\ pc = "done" /\ req \in CreateRequests /\ resp.success
  /\ \E e1, e2 \in events :
       /\ e1.id # e2.id /\ e2.id = resp.eventId
       /\ e1.cal = e2.cal /\ e1.summary = e2.summary
       /\ e1.start = e2.start /\ e1.end = e2.end
       /\ \E r1, r2 \in rows :
            /\ r1.id # r2.id
            /\ r1.google_calendar_event_id = e1.id
            /\ r2.google_calendar_event_id = e2.id
            /\ r1.client_phone = r2.client_phone
            /\ r1.start_time = r2.start_time

\* C37: a POST /client-appointment request that is answered with a 4xx
\* error leaves the Record Store unchanged: no Client record is created or
\* modified by it.
C37_RejectionLeavesStore ==
  [][(Served /\ resp'.status \in 400..499)
       => clients' = clients /\ rows' = rows]_vars

\* both flags of a body say true
BothFlags(r) == FlagSays(r.isCancelling) /\ FlagSays(r.isRescheduling)

\* C38: when a POST /client-appointment request carries both isCancelling =
\* true and isRescheduling = true, only the Cancel path runs: no remote
\* event is updated or inserted by that request.
C38_CancelWinsOverReschedule ==
  [][(Served /\ req \in Requests /\ BothFlags(req))
       => /\ \A i \in DOMAIN calls' :
               calls'[i].op \notin {"events.update", "events.insert"}
          /\ events' \subseteq events
          /\ resp'.action \notin {"create", "reschedule"}]_vars

\* a body with both flags and a new start was served and its event deleted
C38_Witness ==
  /\ pc = "done" /\ BothFlags(req) /\ TsTruthy(req.newStartDateTime)
  /\ Issued(calls, "events.delete", "ok")
  /\ ~ \E e \in events : e.id = req.eventId

\* session s takes the write step of an updateOrCreate that found a barber
UpdatesBarber(s) ==
  req[s].pc = "write" /\ req'[s].pc # "write" /\ req[s].existingBarber # <<>>

\* C40: barberOps.updateOrCreate on an existing barber never erases the
\* stored OAuth refresh credential or the selected calendar id: when the
\* call supplies no value for them (re-registration through POST /register,
\* or an OAuth callback without a refresh token) the values the row holds
\* are kept.
C40_UpdateKeepsCredential ==
  [][\A s \in Sessions :
       UpdatesBarber(s)
         => \A b \in barbers :
              b.phone_number = req[s].phoneNumber
                => \E n \in barbers' :
                     /\ n.id = b.id
                     /\ b.refresh_token => n.refresh_token
                     /\ n.selected_calendar_id = b.selected_calendar_id]_vars

\* the message of request k is in the stored history of its phone number
MessageStored(k) ==
  /\ req[k].clientPhone \in DOMAIN clients
  /\ \E i \in DOMAIN clients[req[k].clientPhone].conversation_history :
       clients[req[k].clientPhone].conversation_history[i].message = req[k].message

\* C39: when two POST /store-conversation requests for the same client
\* phone run concurrently, both messages are in the stored conversation
\* history once both requests have completed (answered 200), whenever the
\* history held fewer than 19 messages before.
C39_NoLostMessage ==
  \A k \in Writers, l \in Writers :
    (/\ k # l
     /\ req[k].pc = "done" /\ req[l].pc = "done"
     /\ req[k].status = 200 /\ req[l].status = 200
     /\ req[k].clientPhone = req[l].clientPhone
     /\ (req[k].clientPhone = PhoneA => input < HistoryLimit - 1))
      => MessageStored(k) /\ MessageStored(l)

\* C35: when a Reschedule and a Cancel for the same remote event run
\* concurrently through POST /client-appointment, then after both have
\* completed (Record Store working) no local Appointment row carries the id
\* of an event that no longer exists on the calendar, under every
\* interleaving of their gateway and store calls.
C35_NoRowOfDeletedEvent ==
  (req.reschedule.pc = "done" /\ req.cancel.pc = "done")
    => \A r \in rows : \E e \in events : e.id = r.google_calendar_event_id

\* the session the last question was about, and the message asked for
Asked == output[req.clientPhone]
AskedGap(j) == Asked[j + 1].created_at - Asked[j].created_at

\* the first message of the burst that ends with the message asked for: all
\* messages from it on followed one another within the window, and it is
\* the first of the session or came later than the window after its
\* predecessor
BurstStart ==
  CHOOSE j \in 1..req.index :
    /\ \A k \in j..(req.index - 1) : AskedGap(k) <= req.timeWindow
    /\ j = 1 \/ AskedGap(j - 1) > req.timeWindow

RECURSIVE Concatenated(_, _)
\* the texts of the messages from..to of the session, one after the other
Concatenated(from, to) ==
  IF from > to THEN <<>> ELSE Asked[from].content \o Concatenated(from + 1, to)

\* C31: the Conversation Aggregator reports a just-stored message as the
\* final one of a burst exactly when no newer message exists for that
\* session within the time window, and then returns the concatenation of
\* all messages of the burst; otherwise it reports that the burst is not
\* yet final.
C31_FinalIffNoNewerInWindow ==
  pc = "polled"
    => /\ req.isFinal <=>
            ~ \E j \in DOMAIN Asked :
                /\ j > req.index
                /\ Asked[j].created_at <= Asked[req.index].created_at + req.timeWindow
       /\ req.isFinal => req.utterance = Concatenated(BurstStart, req.index)
       /\ ~req.isFinal => req.utterance = <<>>

\* the last of three messages was reported final with a burst of two: the
\* first message lies further back than the window
C31_Witness ==
  /\ pc = "polled" /\ req.isFinal /\ req.index = 3
  /\ Len(Asked) = 3
  /\ BurstStart = 2
  /\ req.utterance = Asked[2].content \o Asked[3].content
  /\ Asked[2].content # Asked[3].content

====
